---- MODULE Spec2Model ----
(***************************************************************************)
(* Verification model of the Atlas persistent-memory runtime pieces kept   *)
(* in this repository: the persistent region manager (pregion_mgr.cpp),    *)
(* the instrumentation hooks (NvmInstrumenter.cpp, log_mgr_api.cpp) and    *)
(* the recovery driver (recover.cpp).                                      *)
(*                                                                         *)
(* Two specifications share the variables:                                 *)
(*   Spec     the region manager under concurrent callers and restarts     *)
(*   SpecLog  instrumented threads, a crash, and the recovery driver       *)
(***************************************************************************)
EXTENDS Integers, Sequences, FiniteSets, TLC

VARIABLES
    \* ---- region manager (Spec) ----
    numPRegions,    \* the count word at the head of PRegionTable_
    regions,        \* the slot array behind the count word
    files,          \* names of the region files present on disk
    roots,          \* root word of each region, by region id
    ExtentMap,      \* ExtentMap_: set of [lo, hi, id] intervals
    mappings,       \* base addresses mmap'ed in the running process
    tableLock,      \* holder of the table mutex, NoThread when free
    fLock,          \* holder of the exclusive file lock, NoThread when free
    thr,            \* per-thread call frame of the running operation
    aborted,        \* the process died on a failed assertion
    \* ---- logging, crash and recovery (SpecLog) ----
    hasInstance,    \* LogMgr::hasInstance(): the Log Manager exists
    mode,           \* "barrier" or "table": how data flushes are issued
    mutex,          \* holder of the user mutex, NoThread when free
    lastRel,        \* last-publisher slot of the user mutex (entry id or 0)
    cache,          \* volatile view of user memory, by address
    pmem,           \* durable view of user memory, by address
    chains,         \* per-thread log chains, oldest entry first
    pending,        \* table mode: addresses awaiting the end-of-FASE flush
    ut,             \* per-thread position in the instrumented program
    clock,          \* number of user stores issued so far (fresh values)
    phase,          \* "run", "crashed" or "recovered"
    rec,            \* outcome of the recovery driver
    issued,         \* history: the user stores executed, as [addr, old, new]
    \* ---- the extent map as an atomic pointer (SpecExtent) ----
    maps,           \* the PRegionExtentMap objects allocated so far
    mapPtr,         \* ExtentMap_: index in maps of the published object
    em,             \* per-thread locals of insertExtent / getOpenPRegionId
    inserted,       \* history: the insertExtent calls that have returned
    \* ---- nvm_barrier statement by statement (SpecBarrier) ----
    bar,            \* per thread: position in nvm_barrier, its argument and,
                    \* as history, the primitives the call has issued
    \* ---- the recovery driver run again (SpecRecover) ----
    drv,            \* the runs of the recovery driver: their number, the exit
                    \* of the last one, what it replayed and mapped, and
                    \* whether a run has deleted the log region
    \* ---- the helper thread and shutdown (SpecHelper, SpecShutdown) ----
    hlp             \* the helper thread's position, the prefix it selected,
                    \* published and reclaimed, the stop flag, and the
                    \* position of deleteInstance

prmVars == <<numPRegions, regions, files, roots, ExtentMap, mappings,
             tableLock, fLock, thr, aborted>>
logVars == <<hasInstance, mode, mutex, lastRel, cache, pmem, chains, pending,
             ut, clock, phase, rec, issued>>
auxVars == <<bar, drv, hlp>>
extVars == <<maps, mapPtr, em, inserted, bar, drv, hlp>>
vars == <<numPRegions, regions, files, roots, ExtentMap, mappings, tableLock,
          fLock, thr, aborted, hasInstance, mode, mutex, lastRel, cache, pmem, chains, pending,
          ut, clock, phase, rec, issued, maps, mapPtr, em, inserted, bar, drv,
          hlp>>

(***************************************************************************)
(* Bounds and scaled program constants                                     *)
(***************************************************************************)
kMaxNumPRegions_ == 3
kPRegionSize_ == 2
kInvalidPRegion_ == 0 - 1
Threads == {1, 2}
NoThread == 0
Names == {"a", "b", "c"}
NoName == ""
RootValues == {0, 1}

SlotIds == 0 .. (kMaxNumPRegions_ - 1)

(***************************************************************************)
(* Region metadata (class PRegion) and its table                           *)
(***************************************************************************)
EmptySlot ==
    [name |-> NoName, id |-> 0, base |-> 0,
     is_deleted |-> FALSE, is_mapped |-> FALSE]

\* PRegion(name, rid, base_addr): a freshly constructed slot is mapped and
\* not deleted.
PRegionCtor(name, rid, base) ==
    [name |-> name, id |-> rid, base |-> base,
     is_deleted |-> FALSE, is_mapped |-> TRUE]

\* Variant of searchPRegion that skips slots marked deleted.
searchPRegion_LiveOnly(name) ==
    LET hits == {i \in SlotIds : /\ i < numPRegions
                                 /\ regions[i].name = name
                                 /\ ~regions[i].is_deleted}
    IN  IF hits = {} THEN kInvalidPRegion_
        ELSE CHOOSE i \in hits : \A j \in hits : i <= j

\* searchPRegion: first slot below the count whose name matches, else null
\* (kInvalidPRegion_ stands for the null pointer).
searchPRegion(name) ==
    LET hits == {i \in SlotIds : i < numPRegions /\ regions[i].name = name}
    IN  IF hits = {} THEN kInvalidPRegion_
        ELSE CHOOSE i \in hits : \A j \in hits : i <= j

\* computeNewPRegionBaseAddr: disjoint kPRegionSize_-aligned windows.
computeNewPRegionBaseAddr == (numPRegions + 1) * kPRegionSize_

\* PRegionExtentMap::insertExtent followed by the publishing CAS.
insertExtent(map, lo, hi, rid) == map \cup {[lo |-> lo, hi |-> hi, id |-> rid]}

\* PRegionExtentMap::findExtent: the interval holding the whole span.
findExtent(map, lo, hi) ==
    LET hits == {e \in map : e.lo <= lo /\ hi <= e.hi}
    IN  IF hits = {} THEN kInvalidPRegion_
        ELSE (CHOOSE e \in hits : TRUE).id

getOpenPRegionId(addr, sz) == findExtent(ExtentMap, addr, addr + sz - 1)

(***************************************************************************)
(* Call frames                                                             *)
(***************************************************************************)
Ops == {"findOrCreate", "find", "create", "close", "delete"}

NoRes == [id |-> kInvalidPRegion_, created |-> FALSE, branch |-> "none"]

IdleFrame ==
    [pc |-> "idle", op |-> "none", name |-> NoName, rid |-> 0,
     in_recovery |-> FALSE, rgn |-> kInvalidPRegion_, res |-> NoRes]

\* The locals of a thread that is in neither insertExtent nor
\* getOpenPRegionId.
IdleExtent ==
    [pc |-> "idle", old_map_ptr |-> 0, new_map_ptr |-> 0, ext |-> <<>>,
     map_ptr |-> 0, addr |-> 0, seen |-> {}, res |-> kInvalidPRegion_]

\* The recovery driver has not been run.
NoRun == [runs |-> 0, status |-> "none", deleted |-> FALSE, trace |-> <<>>,
          mapped |-> {}, marked |-> FALSE]

\* A thread that has not called nvm_barrier.
IdleBarrier == [pc |-> 0, p |-> 0, called |-> FALSE, open |-> FALSE,
                prims |-> <<>>]

\* deleteInstance: set the helper's stop flag, signal the condition
\* variable, join the helper, flush the remaining chains, unlink the log
\* file.
ShutdownSequence == <<"stop", "signal", "join", "flush", "unlink">>

\* The helper thread at the top of its loop with nothing selected, published
\* or reclaimed, and deleteInstance not called.  del holds the statements
\* deleteInstance has not executed yet; joined, flushed, unlinked and
\* sleeping record what it has done and whether it found the helper blocked.
IdleHelper ==
    [pc |-> "test", todo |-> <<>>, cut |-> [t \in Threads |-> 0],
     header |-> [t \in Threads |-> 0], freed |-> [t \in Threads |-> 0],
     seen |-> 0, stop |-> FALSE, del |-> ShutdownSequence, joined |-> FALSE,
     flushed |-> FALSE, unlinked |-> FALSE, sleeping |-> FALSE]

\* The constructor of PRegionMgr publishes one empty map.
InitExtent ==
    /\ maps = <<{}>>
    /\ mapPtr = 1
    /\ em = [t \in Threads |-> IdleExtent]
    /\ inserted = {}
    /\ bar = [t \in Threads |-> IdleBarrier]
    /\ drv = NoRun
    /\ hlp = IdleHelper

InitPRM ==
    /\ InitExtent
    /\ numPRegions = 0
    /\ regions = [i \in SlotIds |-> EmptySlot]
    /\ files = {}
    /\ roots = [i \in SlotIds |-> 0]
    /\ ExtentMap = {}
    /\ mappings = {}
    /\ tableLock = NoThread
    /\ fLock = NoThread
    /\ thr = [t \in Threads |-> IdleFrame]
    /\ aborted = FALSE

(***************************************************************************)
(* Region manager: private helpers                                         *)
(***************************************************************************)
\* mapFile, the mmap call: the requested address is a hint, and the kernel
\* places the mapping elsewhere when the range is taken in this process;
\* mapFile asserts that it got the address it asked for.
mmapAtBase(base) == base \notin mappings

\* Variant of RootInit that leaves the root word as the file has it.
RootInit_Kept(i) == roots

\* initPRegionRoot: the root word of the region is zeroed and flushed.
RootInit(i) == [roots EXCEPT ![i] = 0]

\* mapFile(..., does_exist = false): O_CREAT makes the file.
\* mapNewPRegionImpl: construct the slot in place, map (creating) the file,
\* publish the extent, zero the root.
mapNewPRegionImpl(i, name, rid, base) ==
    /\ regions' = [regions EXCEPT ![i] = PRegionCtor(name, rid, base)]
    /\ files' = files \cup {name}
    /\ IF mmapAtBase(base)
       THEN /\ mappings' = mappings \cup {base}
            /\ ExtentMap' = insertExtent(ExtentMap, base,
                                         base + kPRegionSize_ - 1, rid)
            /\ roots' = RootInit(i)
       ELSE UNCHANGED <<mappings, ExtentMap, roots>>

\* Variant of setNumPRegionsOk that admits the maximum itself.
setNumPRegionsOk_AtMost(count) == count >= 0 /\ count <= kMaxNumPRegions_

\* setNumPRegions asserts count < kMaxNumPRegions_ before writing the count.
setNumPRegionsOk(count) == count >= 0 /\ count < kMaxNumPRegions_

\* initNewPRegionImpl -> mapNewPRegion: slot at index count, then the count.
initNewPRegionImpl(name) ==
    LET num_entries == numPRegions
        base_addr == computeNewPRegionBaseAddr
    IN  /\ mapNewPRegionImpl(num_entries, name, num_entries, base_addr)
        /\ IF mmapAtBase(base_addr) /\ setNumPRegionsOk(num_entries + 1)
           THEN numPRegions' = num_entries + 1 /\ aborted' = FALSE
           ELSE numPRegions' = numPRegions /\ aborted' = TRUE

\* mapFile(..., does_exist = true): open without O_CREAT fails on a missing
\* file and the assertion on fd aborts; so does the one on the address.
mapFileExistingOk(i) ==
    regions[i].name \in files /\ mmapAtBase(regions[i].base)

\* initExistingPRegionImpl -> mapExistingPRegion.
initExistingPRegionImpl(i) ==
    IF mapFileExistingOk(i)
    THEN /\ regions' = [regions EXCEPT ![i].is_mapped = TRUE]
         /\ mappings' = mappings \cup {regions[i].base}
         /\ ExtentMap' = insertExtent(ExtentMap, regions[i].base,
                                      regions[i].base + kPRegionSize_ - 1,
                                      regions[i].id)
         /\ aborted' = FALSE
         /\ UNCHANGED <<numPRegions, files, roots>>
    ELSE /\ aborted' = TRUE
         /\ UNCHANGED <<numPRegions, regions, files, roots, ExtentMap,
                        mappings>>

\* Variant of ReusedBaseAddr that picks a fresh base for a reused slot.
ReusedBaseAddr_Fresh(i) == computeNewPRegionBaseAddr

\* Arguments handed to mapNewPRegionImpl when a deleted slot is reused.
ReusedId(i) == regions[i].id
ReusedBaseAddr(i) == regions[i].base

reusePRegion(i, name) ==
    /\ mapNewPRegionImpl(i, name, ReusedId(i), ReusedBaseAddr(i))
    /\ aborted' = ~mmapAtBase(ReusedBaseAddr(i))
    /\ UNCHANGED numPRegions

Ret(t, id, created, branch) ==
    thr' = [thr EXCEPT ![t].pc = "funlock",
                       ![t].res = [id |-> id, created |-> created,
                                   branch |-> branch]]

Abort ==
    /\ aborted' = TRUE
    /\ UNCHANGED <<numPRegions, regions, files, roots, ExtentMap, mappings,
                   thr>>

(***************************************************************************)
(* Region manager: public operations, one step per lock or body            *)
(***************************************************************************)
Running(t) == ~aborted /\ thr[t].pc # "idle"

\* Variant of TableLockFree in which the mutex never blocks.
TableLockFree_Always == TRUE

TableLockFree == tableLock = NoThread
FLockFree == fLock = NoThread

\* A thread enters a public operation and reaches its first statement,
\* acquireTableLock.
Call(t) ==
    /\ UNCHANGED <<logVars, extVars>>
    /\ ~aborted
    /\ thr[t].pc = "idle"
    /\ thr' = [thr EXCEPT ![t].pc = "tlock"]
    /\ UNCHANGED <<numPRegions, regions, files, roots, ExtentMap, mappings,
                   tableLock, fLock, aborted>>

\* acquireTableLock blocks while another thread holds the mutex.  The
\* operation and its arguments are fixed here: nothing reads them earlier.
acquireTableLock(t) ==
    /\ UNCHANGED <<logVars, extVars>>
    /\ ~aborted
    /\ thr[t].pc = "tlock"
    /\ TableLockFree
    /\ tableLock' = t
    /\ \E op \in Ops, n \in Names, rid \in SlotIds, rcv \in BOOLEAN :
          /\ op = "close" => n = "a"
          /\ op # "close" => rid = 0
          /\ op # "find" => rcv = FALSE
          /\ thr' = [thr EXCEPT ![t] =
                        [pc |-> "flock", op |-> op,
                         name |-> IF op = "close" THEN NoName ELSE n,
                         rid |-> rid, in_recovery |-> rcv,
                         rgn |-> kInvalidPRegion_, res |-> NoRes]]
    /\ UNCHANGED <<numPRegions, regions, files, roots, ExtentMap, mappings,
                   fLock, aborted>>

acquireExclusiveFLock(t) ==
    /\ UNCHANGED <<logVars, extVars>>
    /\ Running(t)
    /\ thr[t].pc = "flock"
    /\ FLockFree
    /\ fLock' = t
    /\ thr' = [thr EXCEPT ![t].pc = "search"]
    /\ UNCHANGED <<numPRegions, regions, files, roots, ExtentMap, mappings,
                   tableLock, aborted>>

\* The lookup that opens every body: searchPRegion(name), or for close the
\* slot getPRegion(rid) points at.
Lookup(t) ==
    /\ UNCHANGED <<logVars, extVars>>
    /\ Running(t)
    /\ thr[t].pc = "search"
    /\ thr' = [thr EXCEPT ![t].pc = "act",
                          ![t].rgn = IF thr[t].op = "close" THEN thr[t].rid
                                     ELSE searchPRegion(thr[t].name)]
    /\ UNCHANGED <<numPRegions, regions, files, roots, ExtentMap, mappings,
                   tableLock, fLock, aborted>>

Found(t) == thr[t].rgn # kInvalidPRegion_

findOrCreatePRegion(t) ==
    /\ UNCHANGED <<logVars, extVars>>
    /\ Running(t)
    /\ thr[t].pc = "act" /\ thr[t].op = "findOrCreate"
    /\ LET rgn == thr[t].rgn
           name == thr[t].name
       IN  IF Found(t) /\ ~regions[rgn].is_deleted
           THEN /\ initExistingPRegionImpl(rgn)
                /\ IF aborted' THEN UNCHANGED thr
                   ELSE Ret(t, regions'[rgn].id, FALSE, "existing")
           ELSE IF Found(t)
           THEN /\ reusePRegion(rgn, name)
                /\ IF aborted' THEN UNCHANGED thr
                   ELSE Ret(t, regions'[rgn].id, TRUE, "reuse")
           ELSE /\ initNewPRegionImpl(name)
                /\ IF aborted' THEN UNCHANGED thr
                   ELSE Ret(t, numPRegions, TRUE, "new")
    /\ UNCHANGED <<tableLock, fLock>>

\* Variant of findMisses that ignores is_in_recovery.
findMisses_IgnoresRecovery(t) ==
    \/ ~Found(t)
    \/ regions[thr[t].rgn].is_deleted

\* The test that sends findPRegion to its "return kInvalidPRegion_" branch.
findMisses(t) ==
    \/ ~Found(t)
    \/ regions[thr[t].rgn].is_deleted /\ ~thr[t].in_recovery

findPRegion(t) ==
    /\ UNCHANGED <<logVars, extVars>>
    /\ Running(t)
    /\ thr[t].pc = "act" /\ thr[t].op = "find"
    /\ LET rgn == thr[t].rgn
           name == thr[t].name
       IN  IF findMisses(t)
           THEN /\ Ret(t, kInvalidPRegion_, FALSE, "none")
                /\ UNCHANGED <<numPRegions, regions, files, roots, ExtentMap,
                               mappings, aborted>>
           ELSE IF regions[rgn].is_deleted /\ thr[t].in_recovery
           THEN /\ reusePRegion(rgn, name)
                /\ IF aborted' THEN UNCHANGED thr
                   ELSE Ret(t, regions'[rgn].id, FALSE, "reuse")
           ELSE /\ initExistingPRegionImpl(rgn)
                /\ IF aborted' THEN UNCHANGED thr
                   ELSE Ret(t, regions'[rgn].id, FALSE, "existing")
    /\ UNCHANGED <<tableLock, fLock>>

\* Variant of createRejects without the assertion.
createRejects_Never(t) == FALSE

\* The assertion that stops createPRegion on a live region of that name.
createRejects(t) == Found(t) /\ ~regions[thr[t].rgn].is_deleted

createPRegion(t) ==
    /\ UNCHANGED <<logVars, extVars>>
    /\ Running(t)
    /\ thr[t].pc = "act" /\ thr[t].op = "create"
    /\ LET rgn == thr[t].rgn
           name == thr[t].name
       IN  IF Found(t) /\ regions[rgn].is_deleted
           THEN /\ reusePRegion(rgn, name)
                /\ IF aborted' THEN UNCHANGED thr
                   ELSE Ret(t, regions'[rgn].id, TRUE, "reuse")
           ELSE IF createRejects(t)
           THEN Abort
           ELSE /\ initNewPRegionImpl(name)
                /\ IF aborted' THEN UNCHANGED thr
                   ELSE Ret(t, numPRegions, TRUE, "new")
    /\ UNCHANGED <<tableLock, fLock>>

\* Variant of Closed in which the destructor wipes the slot.
Closed_Destroyed(slot) == EmptySlot

\* closePRegion on the slot: set_is_mapped(false); the destructor that
\* follows releases transient arena state and keeps the slot's fields.
Closed(slot) == [slot EXCEPT !.is_mapped = FALSE]

\* The assertions that stop closePRegion(rid, is_deleting = false): the
\* region is already deleted, or it is not mapped.
closeRejects(t) ==
    \/ regions[thr[t].rgn].is_deleted
    \/ ~regions[thr[t].rgn].is_mapped

\* closePRegion(rid, is_deleting = false).
closePRegion(t) ==
    /\ UNCHANGED <<logVars, extVars>>
    /\ Running(t)
    /\ thr[t].pc = "act" /\ thr[t].op = "close"
    /\ LET preg == thr[t].rgn
       IN  IF ~closeRejects(t)
           THEN /\ regions' = [regions EXCEPT ![preg] = Closed(@)]
                /\ mappings' = mappings \ {regions[preg].base}
                /\ Ret(t, preg, FALSE, "close")
                /\ UNCHANGED <<numPRegions, files, roots, ExtentMap, aborted>>
           ELSE Abort
    /\ UNCHANGED <<tableLock, fLock>>

\* The assertions that stop deletePRegion: no slot of that name, or the
\* slot is already deleted.
deleteRejects(t) ==
    IF Found(t) THEN regions[thr[t].rgn].is_deleted ELSE TRUE

\* Variant of closeTakesLocks in which closePRegion always takes the locks.
closeTakesLocks_Always(is_deleting) == TRUE

\* closePRegion acquires and releases the table mutex and the file lock
\* unless it is called with is_deleting.
closeTakesLocks(is_deleting) == ~is_deleting

\* deletePRegion: mark deleted, closePRegion(id, is_deleting = true) when
\* mapped, unlink the file.  A close that took the locks would wait at
\* "relock" for the mutex its own thread holds.
deletePRegion(t) ==
    /\ UNCHANGED <<logVars, extVars>>
    /\ Running(t)
    /\ thr[t].pc = "act" /\ thr[t].op = "delete"
    /\ LET preg == thr[t].rgn
       IN  IF ~deleteRejects(t) /\ regions[preg].is_mapped
              /\ closeTakesLocks(TRUE)
           THEN /\ regions' = [regions EXCEPT ![preg].is_deleted = TRUE]
                /\ thr' = [thr EXCEPT ![t].pc = "relock"]
                /\ UNCHANGED <<numPRegions, files, roots, ExtentMap,
                               mappings, aborted>>
           ELSE IF ~deleteRejects(t)
           THEN /\ regions' = [regions EXCEPT ![preg].is_deleted = TRUE,
                                              ![preg].is_mapped = FALSE]
                /\ mappings' = IF regions[preg].is_mapped
                               THEN mappings \ {regions[preg].base}
                               ELSE mappings
                /\ files' = files \ {thr[t].name}
                /\ Ret(t, regions[preg].id, FALSE, "delete")
                /\ UNCHANGED <<numPRegions, roots, ExtentMap, aborted>>
           ELSE Abort
    /\ UNCHANGED <<tableLock, fLock>>

releaseFLock(t) ==
    /\ UNCHANGED <<logVars, extVars>>
    /\ Running(t)
    /\ thr[t].pc = "funlock"
    /\ fLock' = NoThread
    /\ thr' = [thr EXCEPT ![t].pc = "tunlock"]
    /\ UNCHANGED <<numPRegions, regions, files, roots, ExtentMap, mappings,
                   tableLock, aborted>>

releaseTableLock(t) ==
    /\ UNCHANGED <<logVars, extVars>>
    /\ Running(t)
    /\ thr[t].pc = "tunlock"
    /\ tableLock' = NoThread
    /\ thr' = [thr EXCEPT ![t] = IdleFrame]
    /\ UNCHANGED <<numPRegions, regions, files, roots, ExtentMap, mappings,
                   fLock, aborted>>

\* The process ends (by exit, by abort or by a crash) and a new one starts:
\* the table file, with every field of its slots, and the region files
\* persist; the mappings, the extent map, the locks and the call frames do
\* not.
Restart ==
    /\ UNCHANGED <<logVars, extVars>>
    /\ ExtentMap' = {}
    /\ mappings' = {}
    /\ tableLock' = NoThread
    /\ fLock' = NoThread
    /\ thr' = [t \in Threads |-> IdleFrame]
    /\ aborted' = FALSE
    /\ UNCHANGED <<numPRegions, regions, files, roots>>

NextPRM ==
    \/ \E t \in Threads : Call(t)
    \/ \E t \in Threads : acquireTableLock(t)
    \/ \E t \in Threads : acquireExclusiveFLock(t)
    \/ \E t \in Threads : Lookup(t)
    \/ \E t \in Threads : findOrCreatePRegion(t)
    \/ \E t \in Threads : findPRegion(t)
    \/ \E t \in Threads : createPRegion(t)
    \/ \E t \in Threads : closePRegion(t)
    \/ \E t \in Threads : deletePRegion(t)
    \/ \E t \in Threads : releaseFLock(t)
    \/ \E t \in Threads : releaseTableLock(t)
    \/ Restart

(***************************************************************************)
(* Log entries, user memory and the instrumented program                   *)
(***************************************************************************)
MaxFases == 3
MaxOps == 2
Locks == {1}
kStrBits == 64
kBitsPerByte == 8
kWordBytes == 8
NoEntry == 0

Positions(lsp) ==
    UNION {{<<i, k>> : k \in 1 .. Len(lsp[i])} : i \in DOMAIN lsp}

\* The two values of an allocator in-use flag.
kInUse == 1
kNotInUse == 0

\* The user region of the logging runs: the first region ever created, the
\* one findOrCreatePRegion maps at slot 0.  Memory is addressed by word.
UserBase == kPRegionSize_
Addrs == UserBase .. (UserBase + kPRegionSize_ - 1)

\* NVM_IsInOpenPR(p, sz): the span lies in one mapped region.
NVM_IsInOpenPR(p, sz) == getOpenPRegionId(p, sz) # kInvalidPRegion_

IdleUser ==
    [pc |-> "idle", lock |-> 0, fases |-> 0, ops |-> 0, kind |-> "none",
     addr |-> 0, val |-> 0, todo |-> <<>>]

NoRecovery == [ran |-> FALSE, log |-> <<>>, crashLog |-> <<>>, trace |-> <<>>,
               failed |-> FALSE, mem |-> <<>>, replayed |-> {}, skipped |-> {},
               done |-> {}, calls |-> 0, below |-> TRUE]

InitLogIdle ==
    /\ hasInstance = FALSE
    /\ mode = "barrier"
    /\ mutex = [l \in Locks |-> NoThread]
    /\ lastRel = [l \in Locks |-> NoEntry]
    /\ cache = [a \in Addrs |-> 0]
    /\ pmem = [a \in Addrs |-> 0]
    /\ chains = [t \in Threads |-> <<>>]
    /\ pending = [t \in Threads |-> {}]
    /\ ut = [t \in Threads |-> IdleUser]
    /\ clock = 0
    /\ phase = "run"
    /\ rec = NoRecovery
    /\ issued = {}

\* The logging runs start after findOrCreatePRegion has created and mapped
\* the user region in an empty table.  The Log Manager exists or not, the
\* build selects how data flushes are issued, every word of the region
\* holds one of the given values, and the program has the given mutexes.
InitRun(insts, modes, words, locks) ==
    /\ InitExtent
    /\ numPRegions = 1
    /\ regions = [i \in SlotIds |->
                    IF i = 0 THEN PRegionCtor("a", 0, UserBase) ELSE EmptySlot]
    /\ files = {"a"}
    /\ roots = [i \in SlotIds |-> 0]
    /\ ExtentMap = insertExtent({}, UserBase, UserBase + kPRegionSize_ - 1, 0)
    /\ mappings = {UserBase}
    /\ tableLock = NoThread
    /\ fLock = NoThread
    /\ thr = [t \in Threads |-> IdleFrame]
    /\ aborted = FALSE
    /\ hasInstance \in insts
    /\ mode \in modes
    /\ mutex = [l \in locks |-> NoThread]
    /\ lastRel = [l \in locks |-> NoEntry]
    /\ pmem \in [Addrs -> words]
    /\ cache = pmem
    /\ chains = [t \in Threads |-> <<>>]
    /\ pending = [t \in Threads |-> {}]
    /\ ut = [t \in Threads |-> IdleUser]
    /\ clock = 0
    /\ phase = "run"
    /\ rec = NoRecovery
    /\ issued = {}

\* Either flush mode of the instrumenter may be selected.
InitLog == InitRun(BOOLEAN, {"barrier", "table"}, {0}, Locks)

\* A log entry.  ValueOrPtr is the old word of a str entry, the release
\* entry an acquire observed, or the handle of a memcpy entry's side buffer
\* (the buffer itself is buf).  fase and new are history fields that no code
\* reads: the FASE the entry belongs to and the value its store writes.
LogEntry(id, type, addr, size, vop, buf, fase, new) ==
    [id |-> id, Type |-> type, Addr |-> addr, Size |-> size,
     ValueOrPtr |-> vop, buf |-> buf, dur |-> FALSE, fase |-> fase,
     new |-> new]

isData(le) == le.Type \in {"str", "memcpy"}

\* Words a data entry covers: Size counts bits for str and bytes for the
\* memcpy class.
SizeInBytes(le) ==
    IF le.Type = "str" THEN le.Size \div kBitsPerByte ELSE le.Size
Covered(le) == le.Addr .. (le.Addr + (SizeInBytes(le) \div kWordBytes) - 1)

\* Variant of Appended in which append returns before its flush.
Appended_NoWait(t) == TRUE

\* append returns once the entry it wrote is flushed and linked.
Appended(t) ==
    IF chains[t] = <<>> THEN TRUE ELSE chains[t][Len(chains[t])].dur

\* append links the new entry behind the last one: a chain runs from the
\* header's entry, the oldest, to the last entry written.
append(t, le) == chains' = [chains EXCEPT ![t] = Append(@, le)]

CurrentFase(t) == <<t, ut[t].fases + 1>>

\* Variant of StoreSequence with the logging call placed after the store.
StoreSequence_StoreFirst == <<"store", "nvm_store", "flush">>

\* The instrumenter puts nvm_store before a store and the data flush
\* (nvm_barrier or AsyncDataFlush) after it.
StoreSequence == <<"nvm_store", "store", "flush">>

\* addMemInstrumentation: nvm_memcpy before the call, the flush after it.
MemcpySequence == <<"nvm_memcpy", "memcpy", "flush">>

UserRunning(t) == phase = "run" /\ ~aborted /\ Appended(t)

\* The run is cut off after MaxFases critical sections and MaxOps data
\* operations, counted over all threads.
RECURSIVE Total(_, _)
Total(f, S) ==
    IF S = {} THEN 0
    ELSE LET t == CHOOSE x \in S : TRUE IN f[t] + Total(f, S \ {t})

FasesBegun ==
    Total([t \in Threads |->
              ut[t].fases + (IF ut[t].pc = "idle" THEN 0 ELSE 1)], Threads)
OpsBegun == Total([t \in Threads |-> ut[t].ops], Threads)

NextStep(t) ==
    LET rest == Tail(ut[t].todo)
    IN  [ut EXCEPT ![t].todo = rest,
                   ![t].pc = IF rest = <<>> THEN "body" ELSE "op"]

AtStep(t, step) ==
    /\ UserRunning(t)
    /\ ut[t].pc = "op"
    /\ Head(ut[t].todo) = step

MemcpyWords == kPRegionSize_
MemcpyBytes == MemcpyWords * kWordBytes

Span(a, n) == a .. (a + n - 1)

(***************************************************************************)
(* The instrumented user threads                                           *)
(***************************************************************************)
\* pthread_mutex_lock; the instrumenter inserts nvm_acquire after it.
lock(t) ==
    /\ UNCHANGED <<prmVars, extVars>>
    /\ UserRunning(t)
    /\ ut[t].pc = "idle"
    /\ FasesBegun < MaxFases
    /\ \E l \in DOMAIN mutex :
          /\ mutex[l] = NoThread
          /\ mutex' = [mutex EXCEPT ![l] = t]
          /\ ut' = [ut EXCEPT ![t].pc = "nvm_acquire", ![t].lock = l]
    /\ UNCHANGED <<hasInstance, mode, lastRel, cache, pmem, chains, pending,
                   clock, phase, rec, issued>>

\* Variant of findLastReleaseOfLock that finds no publisher.
findLastReleaseOfLock_Null(l) == NoEntry

\* logAcquire: the release entry last published for the lock, null when
\* the lock was never released.
findLastReleaseOfLock(l) == lastRel[l]

\* nvm_acquire -> logAcquire: the acquire entry records the last publisher
\* of the lock.
nvm_acquire(t) ==
    /\ UNCHANGED <<prmVars, extVars>>
    /\ UserRunning(t)
    /\ ut[t].pc = "nvm_acquire"
    /\ ut' = [ut EXCEPT ![t].pc = "body"]
    /\ IF hasInstance
       THEN /\ append(t, LogEntry(clock + 1, "acquire", ut[t].lock, 0,
                                  findLastReleaseOfLock(ut[t].lock), <<>>,
                                  CurrentFase(t), 0))
            /\ clock' = clock + 1
       ELSE UNCHANGED <<chains, clock>>
    /\ UNCHANGED <<hasInstance, mode, mutex, lastRel, cache, pmem, pending,
                   phase, rec, issued>>

\* The next statement of the critical section: a store of a fresh value to
\* a word, or a memcpy over MemcpyWords words.
beginOp(t) ==
    /\ UNCHANGED <<prmVars, extVars>>
    /\ UserRunning(t)
    /\ ut[t].pc = "body"
    /\ OpsBegun < MaxOps
    /\ \E kind \in {"str", "memcpy"}, a \in Addrs :
          /\ kind = "memcpy" => Span(a, MemcpyWords) \subseteq Addrs
          /\ ut' = [ut EXCEPT ![t].pc = "op", ![t].kind = kind,
                              ![t].addr = a, ![t].val = clock + 1,
                              ![t].ops = @ + 1,
                              ![t].todo = IF kind = "str" THEN StoreSequence
                                          ELSE MemcpySequence]
    /\ clock' = clock + 1
    /\ UNCHANGED <<hasInstance, mode, mutex, lastRel, cache, pmem, chains,
                   pending, phase, rec, issued>>

\* nvm_store -> logStore: a transient address is not logged; otherwise the
\* str entry samples the current word.
nvm_store(t) ==
    /\ UNCHANGED <<prmVars, extVars>>
    /\ AtStep(t, "nvm_store")
    /\ ut' = NextStep(t)
    /\ IF hasInstance /\ NVM_IsInOpenPR(ut[t].addr, 1)
       THEN /\ append(t, LogEntry(clock + 1, "str", ut[t].addr, kStrBits,
                                  cache[ut[t].addr], <<>>, CurrentFase(t),
                                  ut[t].val))
            /\ clock' = clock + 1
       ELSE UNCHANGED <<chains, clock>>
    /\ UNCHANGED <<hasInstance, mode, mutex, lastRel, cache, pmem, pending,
                   phase, rec, issued>>

\* The user store itself.
store(t) ==
    /\ UNCHANGED <<prmVars, extVars>>
    /\ AtStep(t, "store")
    /\ ut' = NextStep(t)
    /\ cache' = [cache EXCEPT ![ut[t].addr] = ut[t].val]
    /\ issued' = issued \cup {[addr |-> ut[t].addr, old |-> cache[ut[t].addr],
                               new |-> ut[t].val, fase |-> CurrentFase(t)]}
    /\ UNCHANGED <<hasInstance, mode, mutex, lastRel, pmem, chains, pending,
                   clock, phase, rec>>

\* nvm_barrier(p): nothing outside an open region, else fence, flush, fence.
nvm_barrier(t) ==
    /\ UNCHANGED <<prmVars, extVars>>
    /\ AtStep(t, "flush")
    /\ mode = "barrier" /\ ut[t].kind = "str"
    /\ ut' = NextStep(t)
    /\ IF ~NVM_IsInOpenPR(ut[t].addr, 1)
       THEN pmem' = pmem
       ELSE pmem' = [pmem EXCEPT ![ut[t].addr] = cache[ut[t].addr]]
    /\ UNCHANGED <<hasInstance, mode, mutex, lastRel, cache, chains, pending,
                   clock, phase, rec, issued>>

\* Failure of assert(Atlas::LogMgr::hasInstance()).
AssertHasInstance ==
    /\ UNCHANGED extVars
    /\ aborted' = ~hasInstance
    /\ UNCHANGED <<numPRegions, regions, files, roots, ExtentMap, mappings,
                   tableLock, fLock, thr>>

\* AsyncDataFlush(p): the address joins the thread's batch of data flushes.
AsyncDataFlush(t) ==
    /\ AtStep(t, "flush")
    /\ mode = "table" /\ ut[t].kind = "str"
    /\ AssertHasInstance
    /\ IF hasInstance
       THEN /\ pending' = [pending EXCEPT ![t] = @ \cup {ut[t].addr}]
            /\ ut' = NextStep(t)
       ELSE UNCHANGED <<pending, ut>>
    /\ UNCHANGED <<hasInstance, mode, mutex, lastRel, cache, pmem, chains,
                   clock, phase, rec, issued>>

\* nvm_memcpy -> logMemcpy: the old bytes go to a side buffer.
nvm_memcpy(t) ==
    /\ UNCHANGED <<prmVars, extVars>>
    /\ AtStep(t, "nvm_memcpy")
    /\ ut' = NextStep(t)
    /\ IF hasInstance /\ NVM_IsInOpenPR(ut[t].addr, MemcpyWords)
       THEN /\ append(t, LogEntry(clock + 1, "memcpy", ut[t].addr, MemcpyBytes,
                                  clock + 1,
                                  [i \in 1 .. MemcpyWords |->
                                      cache[ut[t].addr + i - 1]],
                                  CurrentFase(t), ut[t].val))
            /\ clock' = clock + 1
       ELSE UNCHANGED <<chains, clock>>
    /\ UNCHANGED <<hasInstance, mode, mutex, lastRel, cache, pmem, pending,
                   phase, rec, issued>>

\* The user memcpy itself.
memcpy(t) ==
    /\ UNCHANGED <<prmVars, extVars>>
    /\ AtStep(t, "memcpy")
    /\ ut' = NextStep(t)
    /\ cache' = [a \in Addrs |->
                    IF a \in Span(ut[t].addr, MemcpyWords) THEN ut[t].val
                    ELSE cache[a]]
    /\ issued' = issued \cup
                    {[addr |-> a, old |-> cache[a], new |-> ut[t].val,
                      fase |-> CurrentFase(t)] :
                        a \in Span(ut[t].addr, MemcpyWords)}
    /\ UNCHANGED <<hasInstance, mode, mutex, lastRel, pmem, chains, pending,
                   clock, phase, rec>>

\* nvm_psync_acq(start, sz) -> psyncWithAcquireBarrier: flush the range.
nvm_psync_acq(t) ==
    /\ AtStep(t, "flush")
    /\ mode = "barrier" /\ ut[t].kind = "memcpy"
    /\ AssertHasInstance
    /\ IF hasInstance
       THEN /\ pmem' = [a \in Addrs |->
                           IF a \in Span(ut[t].addr, MemcpyWords) THEN cache[a]
                           ELSE pmem[a]]
            /\ ut' = NextStep(t)
       ELSE UNCHANGED <<pmem, ut>>
    /\ UNCHANGED <<hasInstance, mode, mutex, lastRel, cache, chains, pending,
                   clock, phase, rec, issued>>

\* AsyncMemOpDataFlush(dst, sz): the range joins the thread's batch.
AsyncMemOpDataFlush(t) ==
    /\ AtStep(t, "flush")
    /\ mode = "table" /\ ut[t].kind = "memcpy"
    /\ AssertHasInstance
    /\ IF hasInstance
       THEN /\ pending' = [pending EXCEPT
                              ![t] = @ \cup Span(ut[t].addr, MemcpyWords)]
            /\ ut' = NextStep(t)
       ELSE UNCHANGED <<pending, ut>>
    /\ UNCHANGED <<hasInstance, mode, mutex, lastRel, cache, pmem, chains,
                   clock, phase, rec, issued>>

\* flushAtEndOfFase: the batched data flushes of the thread are issued.
flushAtEndOfFase(t) ==
    /\ pmem' = [a \in Addrs |-> IF a \in pending[t] THEN cache[a] ELSE pmem[a]]
    /\ pending' = [pending EXCEPT ![t] = {}]

\* nvm_release -> logRelease, inserted before pthread_mutex_unlock: flush
\* what the FASE batched, then append the release entry.
nvm_release(t) ==
    /\ UNCHANGED <<prmVars, extVars>>
    /\ UserRunning(t)
    /\ ut[t].pc = "body"
    /\ IF hasInstance
       THEN /\ flushAtEndOfFase(t)
            /\ append(t, LogEntry(clock + 1, "release", ut[t].lock, 0, 0, <<>>,
                                  CurrentFase(t), 0))
            /\ clock' = clock + 1
            /\ ut' = [ut EXCEPT ![t].pc = "publish"]
       ELSE /\ ut' = [ut EXCEPT ![t].pc = "unlock"]
            /\ UNCHANGED <<pmem, pending, chains, clock>>
    /\ UNCHANGED <<hasInstance, mode, mutex, lastRel, cache, phase, rec,
                   issued>>

\* logRelease, after the flush of its entry: the entry becomes the lock's
\* last publisher.
publish(t) ==
    /\ UNCHANGED <<prmVars, extVars>>
    /\ UserRunning(t)
    /\ ut[t].pc = "publish"
    /\ lastRel' = [lastRel EXCEPT
                      ![ut[t].lock] = chains[t][Len(chains[t])].id]
    /\ ut' = [ut EXCEPT ![t].pc = "unlock"]
    /\ UNCHANGED <<hasInstance, mode, mutex, cache, pmem, chains, pending,
                   clock, phase, rec, issued>>

\* pthread_mutex_unlock.
unlock(t) ==
    /\ UNCHANGED <<prmVars, extVars>>
    /\ UserRunning(t)
    /\ ut[t].pc = "unlock"
    /\ mutex' = [mutex EXCEPT ![ut[t].lock] = NoThread]
    /\ ut' = [ut EXCEPT ![t] = [IdleUser EXCEPT !.fases = ut[t].fases + 1,
                                                !.ops = ut[t].ops]]
    /\ UNCHANGED <<hasInstance, mode, lastRel, cache, pmem, chains, pending,
                   clock, phase, rec, issued>>

\* nvm_alloc sets the in-use flag and then logs the allocation; nvm_free
\* logs the de-allocation and then clears the flag.
AllocSequence == <<"flag", "nvm_log_alloc">>
FreeSequence == <<"nvm_log_free", "flag">>

\* The next statement of the critical section: nvm_alloc of an object that
\* is free, or nvm_free of one that is in use.  An object is named by the
\* address of its in-use flag.  The allocator serializes the calls on one
\* object: no thread frees an object whose nvm_alloc has not returned.
beginAlloc(t) ==
    /\ UNCHANGED <<prmVars, extVars>>
    /\ UserRunning(t)
    /\ ut[t].pc = "body"
    /\ OpsBegun < MaxOps
    /\ \E kind \in {"alloc", "free"}, a \in Addrs :
          /\ cache[a] = (IF kind = "alloc" THEN kNotInUse ELSE kInUse)
          /\ \A u \in Threads : ut[u].pc = "op" => ut[u].addr # a
          /\ ut' = [ut EXCEPT ![t].pc = "op", ![t].kind = kind,
                              ![t].addr = a,
                              ![t].val = IF kind = "alloc" THEN kInUse
                                         ELSE kNotInUse,
                              ![t].ops = @ + 1,
                              ![t].todo = IF kind = "alloc" THEN AllocSequence
                                          ELSE FreeSequence]
    /\ UNCHANGED <<hasInstance, mode, mutex, lastRel, cache, pmem, chains,
                   pending, clock, phase, rec, issued>>

\* The allocator writes the in-use flag of the object.
writeFlag(t) ==
    /\ UNCHANGED <<prmVars, extVars>>
    /\ AtStep(t, "flag")
    /\ ut' = NextStep(t)
    /\ cache' = [cache EXCEPT ![ut[t].addr] = ut[t].val]
    /\ UNCHANGED <<hasInstance, mode, mutex, lastRel, pmem, chains, pending,
                   clock, phase, rec, issued>>

\* The free entry last logged for the flag at addr, null when there is none.
findLastFree(addr) ==
    LET frees == {p \in Positions(chains) :
                     /\ chains[p[1]][p[2]].Type = "free"
                     /\ chains[p[1]][p[2]].Addr = addr}
        ids == {chains[p[1]][p[2]].id : p \in frees}
    IN  IF ids = {} THEN NoEntry
        ELSE CHOOSE i \in ids : \A j \in ids : j <= i

\* nvm_log_alloc -> logAlloc: the alloc entry records the free entry it
\* follows, as an acquire records a release.
nvm_log_alloc(t) ==
    /\ UNCHANGED <<prmVars, extVars>>
    /\ AtStep(t, "nvm_log_alloc")
    /\ ut' = NextStep(t)
    /\ IF hasInstance
       THEN /\ append(t, LogEntry(clock + 1, "alloc", ut[t].addr, kWordBytes,
                                  findLastFree(ut[t].addr), <<>>,
                                  CurrentFase(t), kInUse))
            /\ clock' = clock + 1
       ELSE UNCHANGED <<chains, clock>>
    /\ UNCHANGED <<hasInstance, mode, mutex, lastRel, cache, pmem, pending,
                   phase, rec, issued>>

\* nvm_log_free -> logFree: the free entry is a publisher, as a release is.
nvm_log_free(t) ==
    /\ UNCHANGED <<prmVars, extVars>>
    /\ AtStep(t, "nvm_log_free")
    /\ ut' = NextStep(t)
    /\ IF hasInstance
       THEN /\ append(t, LogEntry(clock + 1, "free", ut[t].addr, kWordBytes,
                                  NoEntry, <<>>, CurrentFase(t), kNotInUse))
            /\ clock' = clock + 1
       ELSE UNCHANGED <<chains, clock>>
    /\ UNCHANGED <<hasInstance, mode, mutex, lastRel, cache, pmem, pending,
                   phase, rec, issued>>

\* append, second half: the entry written last is flushed and linked.
LogFlush(t) ==
    /\ UNCHANGED <<prmVars, extVars>>
    /\ phase = "run" /\ ~aborted
    /\ chains[t] # <<>>
    /\ ~chains[t][Len(chains[t])].dur
    /\ chains' = [chains EXCEPT ![t][Len(chains[t])].dur = TRUE]
    /\ UNCHANGED <<hasInstance, mode, mutex, lastRel, cache, pmem, pending,
                   ut, clock, phase, rec, issued>>

\* The cache writes a dirty user word back on its own.
Evict(a) ==
    /\ UNCHANGED <<prmVars, extVars>>
    /\ phase = "run"
    /\ cache[a] # pmem[a]
    /\ pmem' = [pmem EXCEPT ![a] = cache[a]]
    /\ UNCHANGED <<hasInstance, mode, mutex, lastRel, cache, chains, pending,
                   ut, clock, phase, rec, issued>>

\* What of a chain survives a crash: the entries up to the first one that
\* was not flushed.
RECURSIVE DurablePrefix(_)
DurablePrefix(chain) ==
    IF chain = <<>> THEN <<>>
    ELSE IF ~Head(chain).dur THEN <<>>
    ELSE <<Head(chain)>> \o DurablePrefix(Tail(chain))

\* Power failure or abort: only the durable state remains.
Crash ==
    /\ UNCHANGED extVars
    /\ phase = "run"
    /\ phase' = "crashed"
    /\ cache' = pmem
    /\ chains' = [t \in Threads |-> DurablePrefix(chains[t])]
    /\ mutex' = [l \in DOMAIN mutex |-> NoThread]
    /\ lastRel' = [l \in DOMAIN lastRel |-> NoEntry]
    /\ pending' = [t \in Threads |-> {}]
    /\ ut' = [t \in Threads |-> IdleUser]
    /\ clock' = 0
    /\ issued' = {}
    /\ aborted' = FALSE
    /\ UNCHANGED <<numPRegions, regions, files, roots, ExtentMap, mappings,
                   tableLock, fLock, thr>>
    /\ UNCHANGED <<hasInstance, mode, pmem, rec>>

(***************************************************************************)
(* The helper's cut of the log                                             *)
(***************************************************************************)
NoHeader == <<>>

FasesIn(lsp) == {lsp[p[1]][p[2]].fase : p \in Positions(lsp)}

\* A FASE is committed once its release entry is in the durable log.
Committed(lsp, f) ==
    \E p \in Positions(lsp) :
        lsp[p[1]][p[2]].fase = f /\ lsp[p[1]][p[2]].Type = "release"

\* FASE g observed FASE f: an acquire of g recorded a release of f.
Observes(lsp, g, f) ==
    \E p, q \in Positions(lsp) :
        /\ lsp[p[1]][p[2]].fase = g /\ lsp[p[1]][p[2]].Type = "acquire"
        /\ lsp[q[1]][q[2]].fase = f /\ lsp[q[1]][q[2]].Type = "release"
        /\ lsp[p[1]][p[2]].ValueOrPtr = lsp[q[1]][q[2]].id

ObservedPairs(lsp) ==
    {e \in FasesIn(lsp) \X FasesIn(lsp) : Observes(lsp, e[1], e[2])}

\* The FASEs the helper must leave in the log: the uncommitted ones, every
\* FASE tied to one of them by release->acquire edges (an observer and the
\* observed are undone together), and every later FASE of the same thread
\* (a header names a suffix of each chain).
RECURSIVE Pending(_, _, _)
Pending(all, pairs, U) ==
    LET more == {f \in all \ U :
                    \E g \in U : \/ <<g, f>> \in pairs
                                 \/ <<f, g>> \in pairs
                                 \/ (g[1] = f[1] /\ g[2] < f[2])}
    IN  IF more = {} THEN U ELSE Pending(all, pairs, U \cup more)

\* Variant of StillPending that keeps the uncommitted FASEs only.
StillPending_Uncommitted(lsp) == {f \in FasesIn(lsp) : ~Committed(lsp, f)}

StillPending(lsp) ==
    Pending(FasesIn(lsp), ObservedPairs(lsp),
            {f \in FasesIn(lsp) : ~Committed(lsp, f)})

RECURSIVE Suffix(_, _)
Suffix(chain, keep) ==
    IF chain = <<>> THEN <<>>
    ELSE IF Head(chain).fase \in keep THEN chain
    ELSE Suffix(Tail(chain), keep)

\* helper(lsp): the recovery header it publishes omits the committed prefix
\* of every chain; it publishes none when there is nothing to omit.
helper(lsp) ==
    LET keep == StillPending(lsp)
        cut == [i \in DOMAIN lsp |-> Suffix(lsp[i], keep)]
    IN  IF cut = lsp THEN NoHeader ELSE cut

(***************************************************************************)
(* The recovery driver                                                     *)
(***************************************************************************)
\* The log region's root: null when no log entry was ever created.
GetLogStructureHeader ==
    IF \A t \in Threads : chains[t] = <<>> THEN NoHeader ELSE chains

\* Variant of UsedHeader that ignores the recovery header.
UsedHeader_Root(lsp, recovery_lsp) == lsp

\* main: the recovery header, when the helper published one, is preferred.
UsedHeader(lsp, recovery_lsp) ==
    IF recovery_lsp # NoHeader THEN recovery_lsp ELSE lsp

\* Logical thread ids count the headers from 0.
Tids(lsp) == 0 .. (Len(lsp) - 1)
Chain(lsp, tid) == lsp[tid + 1]

\* CreateRelToAcqMappings: first_log_tracker[tid] is the entry the header
\* points at, last_log_tracker[tid] the entry at the end of the next chain,
\* prev_log_mapper[le] the entry before le (0 is the null pointer).
first_log_tracker(lsp, tid) == 1

\* Variant of last_log_tracker that takes the header's entry for the last
\* log of a thread.
last_log_tracker_Header(lsp) ==
    [tid \in Tids(lsp) |-> IF Chain(lsp, tid) = <<>> THEN 0 ELSE 1]

last_log_tracker(lsp) == [tid \in Tids(lsp) |-> Len(Chain(lsp, tid))]
GetPrevLogEntry(k) == k - 1

\* map_r2a.equal_range(rel): the acquire entries that recorded rel, in the
\* order AddToMap inserted them (by tid, then along the chain).
RECURSIVE AcquirersFrom(_, _, _, _)
AcquirersFrom(lsp, rel, tid, k) ==
    IF tid >= Len(lsp) THEN <<>>
    ELSE IF k > Len(Chain(lsp, tid)) THEN AcquirersFrom(lsp, rel, tid + 1, 1)
    ELSE LET le == Chain(lsp, tid)[k]
             rest == AcquirersFrom(lsp, rel, tid, k + 1)
         IN  IF le.Type \in {"acquire", "alloc", "free"}
                /\ le.ValueOrPtr # NoEntry
                /\ le.ValueOrPtr = rel
             THEN <<[acq |-> le.id, tid |-> tid]>> \o rest
             ELSE rest

map_r2a(lsp, rel) == AcquirersFrom(lsp, rel, 0, 1)

\* ensurePRegionMapped finds a region that is not deleted and holds addr.
HasRegion(addr) ==
    \E i \in SlotIds :
        /\ i < numPRegions
        /\ ~regions[i].is_deleted
        /\ addr >= regions[i].base
        /\ addr < regions[i].base + kPRegionSize_

\* Replay of an alloc or free entry: false undoes an allocation, true a
\* de-allocation.
UndoFlag(le) == IF le.Type = "alloc" THEN kNotInUse ELSE kInUse

\* Replay: write the recorded old value back.
Replay(S, le) ==
    IF ~HasRegion(le.Addr) THEN [S EXCEPT !.failed = TRUE]
    ELSE IF le.Type = "str"
    THEN [S EXCEPT !.mem = [a \in Addrs |->
                               IF a \in Covered(le) THEN le.ValueOrPtr
                               ELSE S.mem[a]],
                   !.trace = Append(@, le.id)]
    ELSE IF le.Type \in {"alloc", "free"}
    THEN [S EXCEPT !.mem = [S.mem EXCEPT ![le.Addr] = UndoFlag(le)],
                   !.trace = Append(@, le.id)]
    ELSE IF le.ValueOrPtr = 0 THEN [S EXCEPT !.failed = TRUE]
    ELSE [S EXCEPT !.mem = [a \in Addrs |->
                               IF a \in Covered(le)
                               THEN le.buf[a - le.Addr + 1]
                               ELSE S.mem[a]],
                   !.trace = Append(@, le.id)]

isAlreadyReplayed(S, id) == id \in S.replayed

\* MarkReplayed asserts that the entry was not marked before.
MarkReplayed(S, le) ==
    IF le.id \in S.replayed THEN [S EXCEPT !.failed = TRUE]
    ELSE [S EXCEPT !.replayed = @ \cup {le.id}]

\* Variant of SkipMark without the test of done_threads: the entry is
\* marked.
SkipMark_Mark(S, le) ==
    IF le.id \in S.replayed THEN [S EXCEPT !.failed = TRUE]
    ELSE [S EXCEPT !.replayed = @ \cup {le.id}]

\* The loop is left at an entry whose thread is done, before MarkReplayed.
SkipMark(S, le) == [S EXCEPT !.skipped = @ \cup {le.id}]

\* Evaluate v once and hand the value to F.
Bind(v, F(_)) == CHOOSE r \in {F(x) : x \in {v}} : TRUE

RECURSIVE RecoverTid(_, _, _)
RECURSIVE Walk(_, _, _, _)
RECURSIVE SwitchTo(_, _, _, _)

\* Variant of AdjustLastLog that leaves the last log where it is.
AdjustLastLog_Kept(S, tid, k) == S

\* Recover(int tid) at a release or free entry that has acquirers: the last
\* log of the thread, from where a subsequent visit starts, becomes the
\* entry before the release.
AdjustLastLog(S, tid, k) == [S EXCEPT !.last[tid] = GetPrevLogEntry(k)]

\* Recover(int tid), the part before the loop.  calls counts the calls that
\* reach the loop; active holds, for every call that is inside the for loop
\* of a release, its thread and the index of the release.  A call that
\* starts at or above the release of an active call of its thread would
\* walk that release again: below records it and the evaluation ends.
RecoverTid(lsp, S, tid) ==
    IF S.failed \/ tid \in S.done THEN S
    ELSE IF \E f \in S.active : f[1] = tid /\ S.last[tid] >= f[2]
    THEN [S EXCEPT !.below = FALSE, !.failed = TRUE]
    ELSE Walk(lsp, [S EXCEPT !.calls = @ + 1], tid, S.last[tid])

\* Recover(int tid), the for loop over the acquirers of a release.
SwitchTo(lsp, S, acqs, i) ==
    IF i > Len(acqs) THEN S
    ELSE Bind(IF ~isAlreadyReplayed(S, acqs[i].acq)
              THEN RecoverTid(lsp, S, acqs[i].tid) ELSE S,
              LAMBDA S2 : SwitchTo(lsp, S2, acqs, i + 1))

\* Recover(int tid), one pass of the while loop up to the stop-node test,
\* with le at index k of the chain.
Visit(lsp, S, tid, k) ==
    LET le == Chain(lsp, tid)[k]
        switched ==
            Bind(map_r2a(lsp, le.id),
                 LAMBDA acqs :
                     Bind(SwitchTo(lsp,
                                   IF acqs # <<>>
                                   THEN [AdjustLastLog(S, tid, k) EXCEPT
                                           !.active = @ \cup {<<tid, k>>}]
                                   ELSE S,
                                   acqs, 1),
                          LAMBDA S1 :
                              [S1 EXCEPT !.active = @ \ {<<tid, k>>}]))
    IN  IF le.Type = "release" THEN switched
        ELSE IF le.Type = "free"
        THEN Bind(switched,
                  LAMBDA S1 :
                      IF S1.failed THEN S1
                      ELSE Bind(Replay(S1, le),
                                LAMBDA S2 :
                                    IF S2.failed THEN S2
                                    ELSE IF tid \in S2.done
                                    THEN SkipMark(S2, le)
                                    ELSE MarkReplayed(S2, le)))
        ELSE IF le.Type = "alloc"
        THEN Bind(Replay(S, le),
                  LAMBDA S1 :
                      IF S1.failed THEN S1
                      ELSE IF tid \in S1.done THEN SkipMark(S1, le)
                      ELSE MarkReplayed(S1, le))
        ELSE IF le.Type = "acquire" THEN MarkReplayed(S, le)
        ELSE Replay(S, le)

\* Recover(int tid), the while loop.
Walk(lsp, S, tid, k) ==
    IF k = 0 \/ S.failed THEN S
    ELSE IF Chain(lsp, tid)[k].Type = "acquire" /\ tid \in S.done
    THEN SkipMark(S, Chain(lsp, tid)[k])
    ELSE Bind(Visit(lsp, S, tid, k),
              LAMBDA S1 :
                  IF S1.failed THEN S1
                  ELSE IF Chain(lsp, tid)[k].Type \in {"alloc", "free"}
                          /\ tid \in S1.done
                  THEN S1
                  ELSE IF k = first_log_tracker(lsp, tid)
                  THEN [S1 EXCEPT !.done = @ \cup {tid}]
                  ELSE Walk(lsp, S1, tid, GetPrevLogEntry(k)))

\* Recover(): every thread that has a last log, in tid order.
RECURSIVE RecoverFrom(_, _, _)
RecoverFrom(lsp, S, tid) ==
    IF tid >= Len(lsp) THEN S
    ELSE Bind(IF Chain(lsp, tid) # <<>> THEN RecoverTid(lsp, S, tid) ELSE S,
              LAMBDA S2 : RecoverFrom(lsp, S2, tid + 1))

Recover(lsp, mem) ==
    RecoverFrom(lsp,
                [mem |-> mem, last |-> last_log_tracker(lsp), done |-> {},
                 replayed |-> {}, skipped |-> {}, trace |-> <<>>,
                 failed |-> FALSE, active |-> {}, calls |-> 0,
                 below |-> TRUE],
                0)

\* main after GetLogStructureHeader returned lsp0: helper, the choice of
\* header, CreateRelToAcqMappings and Recover.
RunRecovery(lsp0, mem) ==
    Bind(UsedHeader(lsp0, helper(lsp0)),
         LAMBDA lsp :
             Bind(Recover(lsp, mem),
                  LAMBDA S : [ran |-> TRUE, log |-> lsp, crashLog |-> lsp0,
                              trace |-> S.trace, failed |-> S.failed,
                              mem |-> S.mem, replayed |-> S.replayed,
                              skipped |-> S.skipped, done |-> S.done,
                              calls |-> S.calls, below |-> S.below]))

\* recover <progname>: main of the recovery driver, run on the crashed
\* state; R_Finalize deletes the log region.
RecoverMain ==
    /\ UNCHANGED <<prmVars, extVars>>
    /\ phase = "crashed"
    /\ IF GetLogStructureHeader = NoHeader
       THEN rec' = [NoRecovery EXCEPT !.crashLog = chains, !.mem = pmem]
       ELSE rec' = RunRecovery(GetLogStructureHeader, pmem)
    /\ pmem' = rec'.mem
    /\ cache' = rec'.mem
    /\ chains' = [t \in Threads |-> <<>>]
    /\ phase' = "recovered"
    /\ UNCHANGED <<hasInstance, mode, mutex, lastRel, pending, ut, clock,
                   issued>>

NextUser ==
    \/ \E t \in Threads : lock(t)
    \/ \E t \in Threads : nvm_acquire(t)
    \/ \E t \in Threads : beginOp(t)
    \/ \E t \in Threads : nvm_store(t)
    \/ \E t \in Threads : store(t)
    \/ \E t \in Threads : nvm_barrier(t)
    \/ \E t \in Threads : AsyncDataFlush(t)
    \/ \E t \in Threads : nvm_memcpy(t)
    \/ \E t \in Threads : memcpy(t)
    \/ \E t \in Threads : nvm_psync_acq(t)
    \/ \E t \in Threads : AsyncMemOpDataFlush(t)
    \/ \E t \in Threads : nvm_release(t)
    \/ \E t \in Threads : publish(t)
    \/ \E t \in Threads : unlock(t)
    \/ \E t \in Threads : LogFlush(t)
    \/ \E a \in Addrs : Evict(a)
    \/ Crash

NextLog == NextUser \/ RecoverMain

SpecLog == InitLog /\ [][NextLog]_vars

\* The allocation runs start as the logging runs do, with every object of
\* the user region either free or left in use by an earlier run.
InitAlloc ==
    InitRun({TRUE}, {"barrier", "table"}, {kNotInUse, kInUse}, Locks)

NextAlloc ==
    \/ \E t \in Threads : lock(t)
    \/ \E t \in Threads : nvm_acquire(t)
    \/ \E t \in Threads : beginAlloc(t)
    \/ \E t \in Threads : writeFlag(t)
    \/ \E t \in Threads : nvm_log_alloc(t)
    \/ \E t \in Threads : nvm_log_free(t)
    \/ \E t \in Threads : nvm_release(t)
    \/ \E t \in Threads : publish(t)
    \/ \E t \in Threads : unlock(t)
    \/ \E t \in Threads : LogFlush(t)
    \/ \E a \in Addrs : Evict(a)
    \/ Crash
    \/ RecoverMain

SpecAlloc == InitAlloc /\ [][NextAlloc]_vars

\* Runs of a program with two mutexes, the second one in transient memory
\* behind the user region: two critical sections can be open at the same
\* time.  Every object is in use at the start.
TwoLocks == Locks \cup {UserBase + kPRegionSize_}

InitAllocLocks == InitRun({TRUE}, {"table"}, {kInUse}, TwoLocks)

SpecAllocLocks == InitAllocLocks /\ [][NextAlloc]_vars

(***************************************************************************)
(* The helper thread of the Log Manager (SpecHelper)                       *)
(***************************************************************************)
\* A build in which the user threads leave the data flushes to the helper:
\* nvm_barrier compiles to nothing.
skipFlush(t) ==
    /\ UNCHANGED <<prmVars, extVars>>
    /\ AtStep(t, "flush")
    /\ mode = "global"
    /\ ut' = NextStep(t)
    /\ UNCHANGED <<hasInstance, mode, mutex, lastRel, cache, pmem, chains,
                   pending, clock, phase, rec, issued>>

DropFirst(chain, n) == SubSeq(chain, n + 1, Len(chain))

\* The log as the recovery driver would find it: the root header reaches
\* every entry that was not reclaimed, the recovery header, once the helper
\* has published one, the entries it does not omit.
RootHeader == [t \in Threads |-> DropFirst(chains[t], hlp.freed[t])]
RecoveryHeader ==
    IF \A t \in Threads : hlp.header[t] = 0 THEN NoHeader
    ELSE [t \in Threads |-> DropFirst(chains[t], hlp.header[t])]

\* What the helper reads: the entries linked into the chains that it has not
\* omitted yet.
HelperView ==
    [t \in Threads |-> DropFirst(DurablePrefix(chains[t]), hlp.header[t])]

\* The number of FASEs closed so far.
FasesClosed ==
    Cardinality({p \in Positions(chains) :
                    chains[p[1]][p[2]].Type = "release"})

\* Variant of HelperSequence that publishes before the data is flushed.
HelperSequence_PublishFirst == <<"publish", "flush", "reclaim">>

\* The helper's loop after it selected a prefix: flush and drain its data,
\* publish the header that omits it, reclaim it.
HelperSequence == <<"flush", "publish", "reclaim">>

HelperRunning == phase = "run" /\ ~aborted /\ hasInstance

HelperAt(step) ==
    /\ HelperRunning
    /\ hlp.pc = "work"
    /\ Head(hlp.todo) = step

HelperAdvance(h) ==
    LET rest == Tail(h.todo)
    IN  [h EXCEPT !.todo = rest,
                  !.pc = IF rest = <<>> THEN "test" ELSE "work"]

\* Variant of WaitIsAtomic: the helper tests the stop flag and the chains,
\* and only then starts to wait.
WaitIsAtomic_Split == FALSE

\* The helper tests its predicate and blocks on the condition variable in
\* one step with respect to the signallers.
WaitIsAtomic == TRUE

\* The top of the helper's loop: leave when the stop flag is set; otherwise
\* snapshot the chains and advance over the committed entries; block on the
\* condition variable when there is nothing to advance over.
helperTest ==
    /\ HelperRunning
    /\ hlp.pc = "test"
    /\ LET cut == helper(HelperView)
       IN  hlp' =
             IF hlp.stop THEN [hlp EXCEPT !.pc = "exited"]
             ELSE IF cut # NoHeader
             THEN [hlp EXCEPT
                      !.pc = "work", !.todo = HelperSequence,
                      !.cut = [t \in Threads |->
                                  hlp.header[t] + Len(HelperView[t])
                                                - Len(cut[t])]]
             ELSE [hlp EXCEPT
                      !.pc = IF WaitIsAtomic THEN "waiting" ELSE "towait",
                      !.seen = FasesClosed]
    /\ UNCHANGED <<prmVars, logVars, maps, mapPtr, em, inserted, bar, drv>>

\* The helper blocked on the condition variable: the close of a FASE wakes
\* it.
helperWait ==
    /\ HelperRunning
    /\ hlp.pc \in {"towait", "waiting"}
    /\ IF hlp.pc = "towait" THEN hlp' = [hlp EXCEPT !.pc = "waiting"]
       ELSE /\ FasesClosed > hlp.seen
            /\ hlp' = [hlp EXCEPT !.pc = "test"]
    /\ UNCHANGED <<prmVars, logVars, maps, mapPtr, em, inserted, bar, drv>>

\* The data entries of the prefix the helper selected.
Selected ==
    {p \in Positions(chains) :
        /\ p[2] > hlp.header[p[1]]
        /\ p[2] <= hlp.cut[p[1]]
        /\ isData(chains[p[1]][p[2]])}

\* Step 3: flush the data the selected entries refer to, then drain.
helperFlush ==
    /\ HelperAt("flush")
    /\ hlp' = HelperAdvance(hlp)
    /\ pmem' = [a \in Addrs |->
                    IF \E p \in Selected : a \in Covered(chains[p[1]][p[2]])
                    THEN cache[a] ELSE pmem[a]]
    /\ UNCHANGED <<prmVars, maps, mapPtr, em, inserted, bar, drv>>
    /\ UNCHANGED <<hasInstance, mode, mutex, lastRel, cache, chains, pending,
                   ut, clock, phase, rec, issued>>

\* Step 4: publish the header that names the still-pending suffix.
helperPublish ==
    /\ HelperAt("publish")
    /\ hlp' = [HelperAdvance(hlp) EXCEPT !.header = hlp.cut]
    /\ UNCHANGED <<prmVars, logVars, maps, mapPtr, em, inserted, bar, drv>>

\* Step 5: give the entries the published header omits back to the
\* allocator.
helperReclaim ==
    /\ HelperAt("reclaim")
    /\ hlp' = [HelperAdvance(hlp) EXCEPT !.freed = hlp.header]
    /\ UNCHANGED <<prmVars, logVars, maps, mapPtr, em, inserted, bar, drv>>

\* The runs with a helper thread: a Log Manager exists, and the build
\* leaves the data flushes to the helper.
InitHelper == InitRun({TRUE}, {"global"}, {0}, Locks)

NextHelper ==
    \/ \E t \in Threads : lock(t)
    \/ \E t \in Threads : nvm_acquire(t)
    \/ \E t \in Threads : beginOp(t)
    \/ \E t \in Threads : nvm_store(t)
    \/ \E t \in Threads : store(t)
    \/ \E t \in Threads : nvm_memcpy(t)
    \/ \E t \in Threads : memcpy(t)
    \/ \E t \in Threads : skipFlush(t)
    \/ \E t \in Threads : nvm_release(t)
    \/ \E t \in Threads : publish(t)
    \/ \E t \in Threads : unlock(t)
    \/ \E t \in Threads : LogFlush(t)
    \/ \E a \in Addrs : Evict(a)
    \/ Crash
    \/ helperTest
    \/ helperWait
    \/ helperFlush
    \/ helperPublish
    \/ helperReclaim

SpecHelper == InitHelper /\ [][NextHelper]_vars

(***************************************************************************)
(* Shutdown: NVM_Finalize -> deleteInstance (SpecShutdown)                 *)
(***************************************************************************)
ShutdownAt(step) ==
    /\ phase = "run" /\ ~aborted
    /\ hlp.del # <<>>
    /\ Head(hlp.del) = step

\* NVM_Finalize asserts that the Log Manager exists; deleteInstance then
\* sets the helper's stop flag.
setStop ==
    /\ ShutdownAt("stop")
    /\ aborted' = ~hasInstance
    /\ hlp' = IF hasInstance
              THEN [hlp EXCEPT !.del = Tail(@), !.stop = TRUE]
              ELSE hlp
    /\ UNCHANGED <<numPRegions, regions, files, roots, ExtentMap, mappings,
                   tableLock, fLock, thr>>
    /\ UNCHANGED <<logVars, maps, mapPtr, em, inserted, bar, drv>>

\* deleteInstance signals the condition variable: a helper blocked on it
\* wakes up; otherwise the signal has no effect.
signalStop ==
    /\ ShutdownAt("signal")
    /\ hlp' = [hlp EXCEPT !.del = Tail(@),
                          !.sleeping = (hlp.pc = "waiting"),
                          !.pc = IF @ = "waiting" THEN "test" ELSE @]
    /\ UNCHANGED <<prmVars, logVars, maps, mapPtr, em, inserted, bar, drv>>

\* deleteInstance joins the helper: the join returns once the helper has
\* left its loop.
joinHelper ==
    /\ ShutdownAt("join")
    /\ hlp.pc = "exited"
    /\ hlp' = [hlp EXCEPT !.del = Tail(@), !.joined = TRUE]
    /\ UNCHANGED <<prmVars, logVars, maps, mapPtr, em, inserted, bar, drv>>

\* deleteInstance flushes what is left of the chains.
flushChains ==
    /\ ShutdownAt("flush")
    /\ hlp' = [hlp EXCEPT !.del = Tail(@), !.flushed = TRUE]
    /\ chains' = [t \in Threads |->
                      [k \in 1 .. Len(chains[t]) |->
                          [chains[t][k] EXCEPT !.dur = TRUE]]]
    /\ UNCHANGED <<prmVars, maps, mapPtr, em, inserted, bar, drv>>
    /\ UNCHANGED <<hasInstance, mode, mutex, lastRel, cache, pmem, pending,
                   ut, clock, phase, rec, issued>>

\* On a clean shutdown deleteInstance unlinks the log file; the Log Manager
\* is gone.
unlinkLog ==
    /\ ShutdownAt("unlink")
    /\ hlp' = [hlp EXCEPT !.del = Tail(@), !.unlinked = TRUE]
    /\ hasInstance' = FALSE
    /\ UNCHANGED <<prmVars, maps, mapPtr, em, inserted, bar, drv>>
    /\ UNCHANGED <<mode, mutex, lastRel, cache, pmem, chains, pending, ut,
                   clock, phase, rec, issued>>

helperThread ==
    \/ helperTest
    \/ helperWait
    \/ helperFlush
    \/ helperPublish
    \/ helperReclaim

deleteInstance ==
    \/ setStop
    \/ signalStop
    \/ joinHelper
    \/ flushChains
    \/ unlinkLog

\* A run that ends in a shutdown, without a crash; the critical sections
\* are empty.
NextShutdown ==
    \/ \E t \in Threads : lock(t)
    \/ \E t \in Threads : nvm_acquire(t)
    \/ \E t \in Threads : nvm_release(t)
    \/ \E t \in Threads : publish(t)
    \/ \E t \in Threads : unlock(t)
    \/ \E t \in Threads : LogFlush(t)
    \/ helperTest
    \/ helperWait
    \/ helperFlush
    \/ helperPublish
    \/ helperReclaim
    \/ setStop
    \/ signalStop
    \/ joinHelper
    \/ flushChains
    \/ unlinkLog

\* The helper and the thread in deleteInstance are threads of the
\* operating system: each takes its next step when it can.  Nothing is
\* assumed about the user threads.
SpecShutdown ==
    /\ InitHelper
    /\ [][NextShutdown]_vars
    /\ WF_vars(helperThread)
    /\ WF_vars(deleteInstance)

Init == InitPRM /\ InitLogIdle

Next == NextPRM

Spec == Init /\ [][Next]_vars

(***************************************************************************)
(* Region roots, frees, lock-free lookups and forced deletion (SpecRoot)   *)
(***************************************************************************)
\* User addresses: transient memory below the first window, then the
\* windows computeNewPRegionBaseAddr hands out.
PAddrs == 0 .. ((kMaxNumPRegions_ + 1) * kPRegionSize_ - 1)
Transient(addr) == addr < kPRegionSize_

\* A load or store of user memory faults unless its page is mapped.
Mapped(addr) == \E b \in mappings : b <= addr /\ addr < b + kPRegionSize_

\* PRegion::getRoot: the root word of the region.
getRoot(rid) == roots[rid]

\* Variant of RootWritten that drops the store.
RootWritten_Dropped(rid, new_root) == roots

\* PRegion::setRoot: the root word is written and flushed.
RootWritten(rid, new_root) == [roots EXCEPT ![rid] = new_root]

\* A thread that is in no region-manager call.
LockFree(t) == ~aborted /\ thr[t].pc = "idle"

\* A call that takes no lock has run and is about to return.
Done(t, op, rid, id, branch) ==
    thr' = [thr EXCEPT ![t] =
               [IdleFrame EXCEPT !.pc = "ret", !.op = op, !.rid = rid,
                                 !.res = [id |-> id, created |-> FALSE,
                                          branch |-> branch]]]

\* Variant of RootFlush that issues no flush before the root is written.
RootFlush_None(t) == UNCHANGED <<pmem, pending>>

\* setPRegionRoot, first half: with a Log Manager it acts as a release.
RootFlush(t) ==
    IF hasInstance THEN flushAtEndOfFase(t) ELSE UNCHANGED <<pmem, pending>>

\* setPRegionRoot(rid, new_root): the flush, then the store to the root
\* word, which faults when the region is not mapped in this process.
setPRegionRoot(t, rid, new_root) ==
    /\ RootFlush(t)
    /\ IF Mapped(regions[rid].base)
       THEN roots' = RootWritten(rid, new_root) /\ aborted' = FALSE
       ELSE roots' = roots /\ aborted' = TRUE

\* NVM_SetRegionRoot called by a thread of the application.
NVM_SetRegionRoot(t) ==
    /\ UNCHANGED extVars
    /\ LockFree(t)
    /\ \E rid \in SlotIds, p \in RootValues :
          /\ setPRegionRoot(t, rid, p)
          /\ IF aborted' THEN UNCHANGED thr
             ELSE Done(t, "setRoot", rid, p, "set")
    /\ UNCHANGED <<numPRegions, regions, files, ExtentMap, mappings,
                   tableLock, fLock>>
    /\ UNCHANGED <<hasInstance, mode, mutex, lastRel, cache, chains, ut,
                   clock, phase, rec, issued>>

\* Variant of freeRejects without the assertion on the region's state.
freeRejects_Never(rgn_id) == FALSE

\* freeMemImpl's assertion: the region is deleted or not mapped.
freeRejects(rgn_id) ==
    regions[rgn_id].is_deleted \/ ~regions[rgn_id].is_mapped

\* freeMem(ptr) -> freeMemImpl.  An address outside every extent goes to
\* libc's free, which faults on one that is not from malloc; inside an
\* extent, freeMemImpl reads the allocation header at ptr and then checks
\* the region.  Allocations are one word long.  The frame keeps ptr as the
\* result, and "fault" as the branch of a call that ended the process.
freeMem(t) ==
    /\ UNCHANGED <<logVars, extVars>>
    /\ LockFree(t)
    /\ \E ptr \in PAddrs :
          LET rgn_id == getOpenPRegionId(ptr, 1)
              returns ==
                  IF rgn_id = kInvalidPRegion_ THEN Transient(ptr)
                  ELSE Mapped(ptr) /\ ~freeRejects(rgn_id)
          IN  /\ aborted' = ~returns
              /\ Done(t, "free", IF rgn_id = kInvalidPRegion_ THEN 0 ELSE rgn_id,
                      ptr, IF ~returns THEN "fault"
                           ELSE IF rgn_id = kInvalidPRegion_ THEN "transient"
                           ELSE "persistent")
    /\ UNCHANGED <<numPRegions, regions, files, roots, ExtentMap, mappings,
                   tableLock, fLock>>

\* ensurePRegionMapped(addr): an address inside an extent is taken as
\* mapped; otherwise the first live slot whose window holds it is mapped.
ensurePRegionMapped(t) ==
    /\ UNCHANGED <<logVars, extVars>>
    /\ LockFree(t)
    /\ \E addr \in PAddrs :
          LET rgn_id == getOpenPRegionId(addr, 1)
              hits == {i \in SlotIds :
                          /\ i < numPRegions
                          /\ ~regions[i].is_deleted
                          /\ regions[i].base <= addr
                          /\ addr < regions[i].base + kPRegionSize_}
          IN  IF rgn_id # kInvalidPRegion_
              THEN /\ Done(t, "ensureMapped", rgn_id, rgn_id, "open")
                   /\ UNCHANGED <<numPRegions, regions, files, roots,
                                  ExtentMap, mappings, aborted>>
              ELSE IF hits = {} THEN Abort
              ELSE LET curr == CHOOSE i \in hits : \A j \in hits : i <= j
                   IN  /\ initExistingPRegionImpl(curr)
                       /\ IF aborted' THEN UNCHANGED thr
                          ELSE Done(t, "ensureMapped", curr,
                                    regions[curr].id, "existing")
    /\ UNCHANGED <<tableLock, fLock>>

\* A call that took no lock returns.
Return(t) ==
    /\ UNCHANGED <<logVars, extVars>>
    /\ ~aborted
    /\ thr[t].pc = "ret"
    /\ thr' = [thr EXCEPT ![t] = IdleFrame]
    /\ UNCHANGED <<numPRegions, regions, files, roots, ExtentMap, mappings,
                   tableLock, fLock, aborted>>

\* deleteForcefullyAllPRegions, up to its table lock.
acquireTableLockForcefully(t) ==
    /\ UNCHANGED <<logVars, extVars>>
    /\ ~aborted
    /\ thr[t].pc = "tlock"
    /\ TableLockFree
    /\ tableLock' = t
    /\ thr' = [thr EXCEPT ![t] = [IdleFrame EXCEPT
                                     !.pc = "flock",
                                     !.op = "deleteForcefullyAll"]]
    /\ UNCHANGED <<numPRegions, regions, files, roots, ExtentMap, mappings,
                   fLock, aborted>>

\* deleteForcefullyPRegion(preg): both flags and the unlink, nothing else.
deleteForcefullyPRegion(slot) ==
    [slot EXCEPT !.is_mapped = FALSE, !.is_deleted = TRUE]

\* deleteForcefullyAllPRegions: every slot below the count.
deleteForcefullyAllPRegions(t) ==
    /\ UNCHANGED <<logVars, extVars>>
    /\ Running(t)
    /\ thr[t].pc = "act" /\ thr[t].op = "deleteForcefullyAll"
    /\ regions' = [i \in SlotIds |->
                      IF i < numPRegions
                      THEN deleteForcefullyPRegion(regions[i])
                      ELSE regions[i]]
    /\ files' = files \ {regions[i].name : i \in 0 .. (numPRegions - 1)}
    /\ Ret(t, kInvalidPRegion_, FALSE, "forced")
    /\ UNCHANGED <<numPRegions, roots, ExtentMap, mappings, aborted>>
    /\ UNCHANGED <<tableLock, fLock>>

\* deleteForcefullyPRegion(name), up to its table lock.
acquireTableLockForcefullyByName(t) ==
    /\ UNCHANGED <<logVars, extVars>>
    /\ ~aborted
    /\ thr[t].pc = "tlock"
    /\ TableLockFree
    /\ tableLock' = t
    /\ \E n \in Names :
          thr' = [thr EXCEPT ![t] = [IdleFrame EXCEPT
                                       !.pc = "flock",
                                       !.op = "deleteForcefully",
                                       !.name = n]]
    /\ UNCHANGED <<numPRegions, regions, files, roots, ExtentMap, mappings,
                   fLock, aborted>>

\* deleteForcefullyPRegion(name) after searchPRegion: the assertion that
\* the region exists, then deleteForcefullyPRegion(preg).
deleteForcefullyPRegionByName(t) ==
    /\ UNCHANGED <<logVars, extVars>>
    /\ Running(t)
    /\ thr[t].pc = "act" /\ thr[t].op = "deleteForcefully"
    /\ IF Found(t)
       THEN /\ regions' = [regions EXCEPT
                             ![thr[t].rgn] = deleteForcefullyPRegion(@)]
            /\ files' = files \ {thr[t].name}
            /\ Ret(t, kInvalidPRegion_, FALSE, "forced")
            /\ UNCHANGED <<numPRegions, roots, ExtentMap, mappings, aborted>>
       ELSE Abort
    /\ UNCHANGED <<tableLock, fLock>>

\* Every operation that takes the table mutex and the file lock, called by
\* any thread.
NextLocking ==
    \/ NextPRM
    \/ \E t \in Threads : acquireTableLockForcefully(t)
    \/ \E t \in Threads : deleteForcefullyAllPRegions(t)
    \/ \E t \in Threads : acquireTableLockForcefullyByName(t)
    \/ \E t \in Threads : deleteForcefullyPRegionByName(t)

SpecLocking == Init /\ [][NextLocking]_vars

\* In both specifications the first thread runs the locked operations and
\* the second the calls that take no lock, so that each of those calls
\* interleaves with every step of an operation in progress.
NextRoot ==
    \/ NextPRM /\ thr'[2].pc # "tlock"
    \/ \E t \in Threads \ {1} : NVM_SetRegionRoot(t)
    \/ \E t \in Threads \ {1} : ensurePRegionMapped(t)
    \/ \E t \in Threads : Return(t)

NextFree ==
    \/ NextPRM /\ thr'[2].pc # "tlock"
    \/ \E t \in Threads \ {1} : freeMem(t)
    \/ \E t \in Threads \ {1} : ensurePRegionMapped(t)
    \/ \E t \in Threads : Return(t)
    \/ \E t \in Threads : acquireTableLockForcefully(t)
    \/ \E t \in Threads : deleteForcefullyAllPRegions(t)

SpecFree == Init /\ [][NextFree]_vars

SpecRoot == Init /\ [][NextRoot]_vars

(***************************************************************************)
(* Creation and deletion statement by statement, with crashes (SpecCrash)  *)
(***************************************************************************)
\* Variant of DeleteSequence that unlinks the file before marking the slot.
DeleteSequence_UnlinkFirst == <<"unlink", "set_is_deleted", "closeDeleted">>

\* deletePRegion after its assertions: set_is_deleted(true), the close of a
\* mapped region, the unlink.
DeleteSequence == <<"set_is_deleted", "closeDeleted", "unlink">>

\* mapNewPRegionImpl: the constructor on the slot, mapFile, insertExtent,
\* initPRegionRoot.
ReuseSequence == <<"PRegion", "mapFile", "insertExtent", "initPRegionRoot">>

\* Variant of NewSequence that writes the count before the slot.
NewSequence_CountFirst ==
    <<"setNumPRegions", "PRegion", "mapFile", "insertExtent",
      "initPRegionRoot">>

\* mapNewPRegion: mapNewPRegionImpl, then setNumPRegions.
NewSequence ==
    <<"PRegion", "mapFile", "insertExtent", "initPRegionRoot",
      "setNumPRegions">>

SequenceOf(branch) ==
    IF branch = "delete" THEN DeleteSequence
    ELSE IF branch = "reuse" THEN ReuseSequence
    ELSE NewSequence

Pos(seq, step) == CHOOSE k \in 1 .. Len(seq) : seq[k] = step

\* The thread is about to execute the named statement.
AtStatement(t, step) ==
    /\ Running(t)
    /\ thr[t].pc = step

\* The statement is done: on to the next one, or return.
Advance(t, id, created) ==
    LET branch == thr[t].res.branch
        seq == SequenceOf(branch)
        k == Pos(seq, thr[t].pc)
    IN  IF k = Len(seq) THEN Ret(t, id, created, branch)
        ELSE thr' = [thr EXCEPT ![t].pc = seq[k + 1]]

\* The branch is taken: the slot it works on and its first statement.
Enter(t, branch, slot) ==
    thr' = [thr EXCEPT ![t].pc = SequenceOf(branch)[1],
                       ![t].rgn = slot,
                       ![t].res = [NoRes EXCEPT !.branch = branch]]

\* findOrCreatePRegion up to the choice of its branch; opening an existing
\* region is left in one step.
findOrCreateBranch(t) ==
    /\ UNCHANGED <<logVars, extVars>>
    /\ Running(t)
    /\ thr[t].pc = "act" /\ thr[t].op = "findOrCreate"
    /\ LET rgn == thr[t].rgn
       IN  IF Found(t) /\ ~regions[rgn].is_deleted
           THEN /\ initExistingPRegionImpl(rgn)
                /\ IF aborted' THEN UNCHANGED thr
                   ELSE Ret(t, regions'[rgn].id, FALSE, "existing")
           ELSE /\ IF Found(t) THEN Enter(t, "reuse", rgn)
                   ELSE Enter(t, "new", numPRegions)
                /\ UNCHANGED <<numPRegions, regions, files, roots, ExtentMap,
                               mappings, aborted>>
    /\ UNCHANGED <<tableLock, fLock>>

\* new (rgn) PRegion(name, rid, base_addr).
constructPRegion(t) ==
    /\ UNCHANGED <<logVars, extVars>>
    /\ AtStatement(t, "PRegion")
    /\ LET i == thr[t].rgn
           reuse == thr[t].res.branch = "reuse"
           rid == IF reuse THEN ReusedId(i) ELSE i
           \* initNewPRegionImpl took computeNewPRegionBaseAddr() on entry,
           \* when the count was i.
           base == IF reuse THEN ReusedBaseAddr(i)
                   ELSE (i + 1) * kPRegionSize_
       IN  /\ regions' = [regions EXCEPT
                             ![i] = PRegionCtor(thr[t].name, rid, base)]
           /\ Advance(t, rid, TRUE)
    /\ UNCHANGED <<numPRegions, files, roots, ExtentMap, mappings, tableLock,
                   fLock, aborted>>

\* mapFile(name, flags, base_addr, does_exist = false).
mapFile(t) ==
    /\ UNCHANGED <<logVars, extVars>>
    /\ AtStatement(t, "mapFile")
    /\ LET i == thr[t].rgn
       IN  /\ files' = files \cup {thr[t].name}
           /\ IF mmapAtBase(regions[i].base)
              THEN /\ mappings' = mappings \cup {regions[i].base}
                   /\ Advance(t, regions[i].id, TRUE)
                   /\ aborted' = FALSE
              ELSE /\ aborted' = TRUE
                   /\ UNCHANGED <<mappings, thr>>
    /\ UNCHANGED <<numPRegions, regions, roots, ExtentMap, tableLock, fLock>>

\* insertExtent(base_addr, base_addr + kPRegionSize_ - 1, rid).
insertExtentStatement(t) ==
    /\ UNCHANGED <<logVars, extVars>>
    /\ AtStatement(t, "insertExtent")
    /\ LET i == thr[t].rgn
       IN  /\ ExtentMap' = insertExtent(ExtentMap, regions[i].base,
                                        regions[i].base + kPRegionSize_ - 1,
                                        regions[i].id)
           /\ Advance(t, regions[i].id, TRUE)
    /\ UNCHANGED <<numPRegions, regions, files, roots, mappings, tableLock,
                   fLock, aborted>>

\* initPRegionRoot(rgn).
initPRegionRoot(t) ==
    /\ UNCHANGED <<logVars, extVars>>
    /\ AtStatement(t, "initPRegionRoot")
    /\ LET i == thr[t].rgn
       IN  /\ roots' = RootInit(i)
           /\ Advance(t, regions[i].id, TRUE)
    /\ UNCHANGED <<numPRegions, regions, files, ExtentMap, mappings,
                   tableLock, fLock, aborted>>

\* setNumPRegions(num_entries + 1), num_entries being the slot's index.
setNumPRegions(t) ==
    /\ UNCHANGED <<logVars, extVars>>
    /\ AtStatement(t, "setNumPRegions")
    /\ LET num_entries == thr[t].rgn
       IN  IF setNumPRegionsOk(num_entries + 1)
           THEN /\ numPRegions' = num_entries + 1
                /\ Advance(t, num_entries, TRUE)
                /\ aborted' = FALSE
           ELSE /\ aborted' = TRUE
                /\ UNCHANGED <<numPRegions, thr>>
    /\ UNCHANGED <<regions, files, roots, ExtentMap, mappings, tableLock,
                   fLock>>

\* deletePRegion up to its assertions.
deleteBranch(t) ==
    /\ UNCHANGED <<logVars, extVars>>
    /\ Running(t)
    /\ thr[t].pc = "act" /\ thr[t].op = "delete"
    /\ IF deleteRejects(t) THEN Abort
       ELSE /\ Enter(t, "delete", thr[t].rgn)
            /\ UNCHANGED <<numPRegions, regions, files, roots, ExtentMap,
                           mappings, aborted>>
    /\ UNCHANGED <<tableLock, fLock>>

\* preg->set_is_deleted(true).
set_is_deleted(t) ==
    /\ UNCHANGED <<logVars, extVars>>
    /\ AtStatement(t, "set_is_deleted")
    /\ regions' = [regions EXCEPT ![thr[t].rgn].is_deleted = TRUE]
    /\ Advance(t, regions[thr[t].rgn].id, FALSE)
    /\ UNCHANGED <<numPRegions, files, roots, ExtentMap, mappings, tableLock,
                   fLock, aborted>>

\* if (preg->is_mapped()) closePRegion(preg->get_id(), is_deleting = true).
closeDeleted(t) ==
    /\ UNCHANGED <<logVars, extVars>>
    /\ AtStatement(t, "closeDeleted")
    /\ LET preg == thr[t].rgn
       IN  IF regions[preg].is_mapped
           THEN /\ regions' = [regions EXCEPT ![preg] = Closed(@)]
                /\ mappings' = mappings \ {regions[preg].base}
           ELSE UNCHANGED <<regions, mappings>>
    /\ Advance(t, regions[thr[t].rgn].id, FALSE)
    /\ UNCHANGED <<numPRegions, files, roots, ExtentMap, tableLock, fLock,
                   aborted>>

\* unlink(NVM_GetFullyQualifiedRegionName(name)).
unlink(t) ==
    /\ UNCHANGED <<logVars, extVars>>
    /\ AtStatement(t, "unlink")
    /\ files' = files \ {thr[t].name}
    /\ Advance(t, regions[thr[t].rgn].id, FALSE)
    /\ UNCHANGED <<numPRegions, regions, roots, ExtentMap, mappings,
                   tableLock, fLock, aborted>>

\* One thread runs the operations; Restart is the crash, at any statement.
NextCrash ==
    \/ \E t \in Threads \ {2} : Call(t)
    \/ \E t \in Threads : acquireTableLock(t)
    \/ \E t \in Threads : acquireExclusiveFLock(t)
    \/ \E t \in Threads : Lookup(t)
    \/ \E t \in Threads : findOrCreateBranch(t)
    \/ \E t \in Threads : constructPRegion(t)
    \/ \E t \in Threads : mapFile(t)
    \/ \E t \in Threads : insertExtentStatement(t)
    \/ \E t \in Threads : initPRegionRoot(t)
    \/ \E t \in Threads : setNumPRegions(t)
    \/ \E t \in Threads : deleteBranch(t)
    \/ \E t \in Threads : set_is_deleted(t)
    \/ \E t \in Threads : closeDeleted(t)
    \/ \E t \in Threads : unlink(t)
    \/ \E t \in Threads : findPRegion(t)
    \/ \E t \in Threads : createPRegion(t)
    \/ \E t \in Threads : closePRegion(t)
    \/ \E t \in Threads : releaseFLock(t)
    \/ \E t \in Threads : releaseTableLock(t)
    \/ Restart

SpecCrash == Init /\ [][NextCrash]_vars

(***************************************************************************)
(* setRoot inside a critical section of the logged program (SpecRootLog)   *)
(***************************************************************************)
\* NVM_SetRegionRoot as a statement of a critical section, as in the
\* initialize() of the data-structure tests: the new root is a fresh
\* pointer value.
SetRegionRootInFase(t) ==
    /\ UNCHANGED extVars
    /\ UserRunning(t)
    /\ ut[t].pc = "body"
    /\ OpsBegun < MaxOps
    /\ setPRegionRoot(t, 0, clock + 1)
    /\ clock' = clock + 1
    /\ ut' = [ut EXCEPT ![t].kind = "setRoot", ![t].val = clock + 1,
                        ![t].ops = @ + 1]
    /\ UNCHANGED <<numPRegions, regions, files, ExtentMap, mappings,
                   tableLock, fLock, thr>>
    /\ UNCHANGED <<hasInstance, mode, mutex, lastRel, cache, chains, phase,
                   rec, issued>>

NextRootLog ==
    \/ NextLog
    \/ \E t \in Threads : SetRegionRootInFase(t)

SpecRootLog == InitLog /\ [][NextRootLog]_vars

(***************************************************************************)
(* The extent map behind its atomic pointer (SpecExtent)                   *)
(***************************************************************************)
MaxMaps == 5

\* The extents the region manager inserts: the window of each slot.
Extents ==
    {[lo |-> (i + 1) * kPRegionSize_, hi |-> (i + 2) * kPRegionSize_ - 1,
      id |-> i] : i \in SlotIds}

\* Variant of CasSucceeds that stores the new pointer unconditionally.
CasSucceeds_Always(t) == TRUE

\* compare_exchange_weak succeeds only if ExtentMap_ still is the pointer
\* the thread loaded (it may also fail when it is).
CasSucceeds(t) == mapPtr = em[t].old_map_ptr

\* insertExtent: old_map_ptr = ExtentMap_.load(acquire).  Callers are the
\* holder of the table lock and ensurePRegionMapped, which takes no lock.
loadOldMap(t) ==
    /\ UNCHANGED <<prmVars, logVars, auxVars>>
    /\ em[t].pc = "idle"
    /\ \E e \in Extents :
          em' = [em EXCEPT ![t] = [IdleExtent EXCEPT !.pc = "copy",
                                                     !.old_map_ptr = mapPtr,
                                                     !.ext = e]]
    /\ UNCHANGED <<maps, mapPtr, inserted>>

\* new_map_ptr = new PRegionExtentMap(*old_map_ptr).
copyMap(t) ==
    /\ UNCHANGED <<prmVars, logVars, auxVars>>
    /\ em[t].pc = "copy"
    /\ Len(maps) < MaxMaps
    /\ maps' = Append(maps, maps[em[t].old_map_ptr])
    /\ em' = [em EXCEPT ![t].pc = "insert", ![t].new_map_ptr = Len(maps) + 1]
    /\ UNCHANGED <<mapPtr, inserted>>

\* new_map_ptr->insertExtent(first_addr, last_addr, rid).
insertIntoCopy(t) ==
    /\ UNCHANGED <<prmVars, logVars, auxVars>>
    /\ em[t].pc = "insert"
    /\ maps' = [maps EXCEPT ![em[t].new_map_ptr] =
                   insertExtent(@, em[t].ext.lo, em[t].ext.hi, em[t].ext.id)]
    /\ em' = [em EXCEPT ![t].pc = "cas"]
    /\ UNCHANGED <<mapPtr, inserted>>

\* ExtentMap_.compare_exchange_weak(old_map_ptr, new_map_ptr): publish and
\* return, or take the current pointer as old_map_ptr and go round again.
compareExchange(t) ==
    /\ UNCHANGED <<prmVars, logVars, auxVars>>
    /\ em[t].pc = "cas"
    /\ \E spurious \in BOOLEAN :
          IF CasSucceeds(t) /\ ~spurious
          THEN /\ mapPtr' = em[t].new_map_ptr
               /\ inserted' = inserted \cup {em[t].ext}
               /\ em' = [em EXCEPT ![t] = IdleExtent]
          ELSE /\ em' = [em EXCEPT ![t].pc = "copy", ![t].old_map_ptr = mapPtr]
               /\ UNCHANGED <<mapPtr, inserted>>
    /\ UNCHANGED maps

\* getOpenPRegionId(addr, 1): ExtentMap_.load(acquire).  seen is history:
\* the insertions that had returned when the pointer was loaded.
loadMap(t) ==
    /\ UNCHANGED <<prmVars, logVars, auxVars>>
    /\ em[t].pc = "idle"
    /\ \E addr \in PAddrs :
          em' = [em EXCEPT ![t] = [IdleExtent EXCEPT !.pc = "find",
                                                     !.map_ptr = mapPtr,
                                                     !.addr = addr,
                                                     !.seen = inserted]]
    /\ UNCHANGED <<maps, mapPtr, inserted>>

\* getOpenPRegionId: ->findExtent(addr, addr + sz - 1) on the loaded map.
findInMap(t) ==
    /\ UNCHANGED <<prmVars, logVars, auxVars>>
    /\ em[t].pc = "find"
    /\ em' = [em EXCEPT ![t].pc = "found",
                        ![t].res = findExtent(maps[em[t].map_ptr], em[t].addr,
                                              em[t].addr)]
    /\ UNCHANGED <<maps, mapPtr, inserted>>

\* getOpenPRegionId returns.
returnId(t) ==
    /\ UNCHANGED <<prmVars, logVars, auxVars>>
    /\ em[t].pc = "found"
    /\ em' = [em EXCEPT ![t] = IdleExtent]
    /\ UNCHANGED <<maps, mapPtr, inserted>>

NextExtent ==
    \/ \E t \in Threads : loadOldMap(t)
    \/ \E t \in Threads : copyMap(t)
    \/ \E t \in Threads : insertIntoCopy(t)
    \/ \E t \in Threads : compareExchange(t)
    \/ \E t \in Threads : loadMap(t)
    \/ \E t \in Threads : findInMap(t)
    \/ \E t \in Threads : returnId(t)

SpecExtent == Init /\ [][NextExtent]_vars

(***************************************************************************)
(* nvm_barrier statement by statement (SpecBarrier)                        *)
(***************************************************************************)
\* nvm_barrier after its test: full_fence(); nvm_clflush(p); full_fence().
BarrierSequence == <<"full_fence", "nvm_clflush", "full_fence">>

\* The statement is done: on to the next one, or return.
BarrierAdvance(t, prim) ==
    bar' = [bar EXCEPT ![t].prims = Append(@, prim),
                       ![t].pc = IF bar[t].pc = Len(BarrierSequence) THEN 0
                                 ELSE bar[t].pc + 1]

BarrierAt(t, prim) ==
    /\ ~aborted
    /\ bar[t].pc > 0
    /\ BarrierSequence[bar[t].pc] = prim

\* The arguments of nvm_barrier: the last transient word and the first word
\* of the first region's range.
BarrierArgs == {kPRegionSize_ - 1, kPRegionSize_}

\* nvm_barrier(p): if (!NVM_IsInOpenPR(p, 1)) return.  open is history:
\* whether a region was mapped at p when the call was made.
barrierTest(t) ==
    /\ UNCHANGED <<prmVars, logVars>>
    /\ ~aborted
    /\ bar[t].pc = 0
    /\ \E p \in BarrierArgs :
          bar' = [bar EXCEPT ![t] =
                     [pc |-> IF NVM_IsInOpenPR(p, 1) THEN 1 ELSE 0,
                      p |-> p, called |-> TRUE, open |-> Mapped(p),
                      prims |-> <<>>]]
    /\ UNCHANGED <<maps, mapPtr, em, inserted, drv, hlp>>

\* full_fence().
full_fence(t) ==
    /\ UNCHANGED <<prmVars, logVars>>
    /\ BarrierAt(t, "full_fence")
    /\ BarrierAdvance(t, <<"full_fence">>)
    /\ UNCHANGED <<maps, mapPtr, em, inserted, drv, hlp>>

\* nvm_clflush(p): the line is written back; the instruction faults on an
\* address that is not mapped.
nvm_clflush(t) ==
    /\ BarrierAt(t, "nvm_clflush")
    /\ IF Mapped(bar[t].p)
       THEN /\ BarrierAdvance(t, <<"nvm_clflush", bar[t].p>>)
            /\ pmem' = [a \in Addrs |->
                           IF a = bar[t].p THEN cache[a] ELSE pmem[a]]
            /\ aborted' = FALSE
       ELSE /\ aborted' = TRUE
            /\ UNCHANGED <<bar, pmem>>
    /\ UNCHANGED <<numPRegions, regions, files, roots, ExtentMap, mappings,
                   tableLock, fLock, thr>>
    /\ UNCHANGED <<hasInstance, mode, mutex, lastRel, cache, chains, pending,
                   ut, clock, phase, rec, issued>>
    /\ UNCHANGED <<maps, mapPtr, em, inserted, drv, hlp>>

\* The first thread opens, closes and deletes regions while the second
\* calls nvm_barrier.
NextBarrier ==
    \/ NextPRM /\ thr'[2].pc # "tlock"
    \/ \E t \in Threads \ {1} : barrierTest(t)
    \/ \E t \in Threads \ {1} : full_fence(t)
    \/ \E t \in Threads \ {1} : nvm_clflush(t)

SpecBarrier == Init /\ [][NextBarrier]_vars

(***************************************************************************)
(* The recovery driver run more than once (SpecRecover)                    *)
(***************************************************************************)
MaxRuns == 2

\* Variant of NVM_doesLogExist that reports a log where there is none.
NVM_doesLogExist_Always == TRUE

\* NVM_doesLogExist(log file of the program): NVM_Initialize created the
\* file and no run of the driver has deleted the log region.
NVM_doesLogExist == hasInstance /\ ~drv.deleted

\* Variant of R_Finalize that leaves the log region in place.
R_Finalize_KeepsLog(run) == [run EXCEPT !.mapped = {}]

\* R_Finalize: closePRegion on every region in mapped_prs, then
\* NVM_DeleteRegion on the log region, which marks the slot deleted and
\* unlinks the file.
R_Finalize(run) ==
    [run EXCEPT !.deleted = TRUE, !.marked = TRUE, !.mapped = {}]

\* R_Finalize of a run that is killed in deletePRegion after set_is_deleted
\* and before unlink: the slot is marked, the log file is still there.
R_Finalize_Killed(run) == [run EXCEPT !.marked = TRUE, !.mapped = {}]

\* Variant of LogRootAfterFind in which a re-mapped slot keeps its root.
LogRootAfterFind_Kept(marked, lsp) == lsp

\* The root of the log region after findPRegion(log_name, O_RDWR, true): a
\* slot marked deleted is re-mapped by mapNewPRegionImpl, whose
\* initPRegionRoot zeroes the root; a live slot keeps its root.
LogRootAfterFind(marked, lsp) == IF marked THEN NoHeader ELSE lsp

\* The user regions Replay had ensurePRegionMapped map: those holding the
\* address of a replayed entry.
MappedByReplay(lsp, trace) ==
    {i \in SlotIds :
        /\ i < numPRegions
        /\ \E p \in Positions(lsp) :
              /\ \E k \in 1 .. Len(trace) : trace[k] = lsp[p[1]][p[2]].id
              /\ lsp[p[1]][p[2]].Addr >= regions[i].base
              /\ lsp[p[1]][p[2]].Addr < regions[i].base + kPRegionSize_}

\* recover <progname>, a whole run of main.  R_Initialize exits with 0 when
\* the log file is missing; its findPRegion(log_name, O_RDWR, true) fails
\* the assertion when the table has no log region and re-maps, with a
\* null root, a log region whose slot is marked deleted.  A null header
\* ends in R_Finalize and exit(0); else the log is undone and R_Finalize
\* runs unless an assertion ended the run.  A run may be killed inside
\* R_Finalize; runs counts the runs that ended on their own.
DriverRun(killed) ==
    /\ phase \in {"crashed", "recovered"}
    /\ drv.runs < MaxRuns
    /\ killed => ~drv.marked
    /\ phase' = "recovered"
    /\ LET run == [drv EXCEPT !.runs = IF killed THEN @ ELSE @ + 1,
                              !.trace = <<>>, !.mapped = {}]
           fin == IF killed
                  THEN [R_Finalize_Killed(run) EXCEPT !.status = "killed"]
                  ELSE R_Finalize(run)
           lsp0 == LogRootAfterFind(drv.marked, GetLogStructureHeader)
       IN  IF ~NVM_doesLogExist
           THEN /\ ~killed
                /\ drv' = [run EXCEPT !.status = "exit 0"]
                /\ UNCHANGED <<pmem, cache, chains, rec, regions>>
           ELSE IF ~hasInstance
           THEN /\ ~killed
                /\ drv' = [run EXCEPT !.status = "abort"]
                /\ UNCHANGED <<pmem, cache, chains, rec, regions>>
           ELSE IF lsp0 = NoHeader
           THEN /\ drv' = IF killed THEN fin
                          ELSE [fin EXCEPT !.status = "exit 0"]
                /\ chains' = [t \in Threads |-> <<>>]
                /\ UNCHANGED <<pmem, cache, rec, regions>>
           ELSE /\ rec' = RunRecovery(lsp0, pmem)
                /\ pmem' = rec'.mem
                /\ cache' = rec'.mem
                /\ IF rec'.failed
                   THEN /\ ~killed
                        /\ drv' = [run EXCEPT
                                     !.status = "abort",
                                     !.trace = rec'.trace,
                                     !.mapped = MappedByReplay(rec'.log,
                                                               rec'.trace)]
                        /\ UNCHANGED <<chains, regions>>
                   ELSE /\ drv' = IF killed
                                  THEN [fin EXCEPT !.trace = rec'.trace]
                                  ELSE [fin EXCEPT !.status = "done",
                                                   !.trace = rec'.trace]
                        /\ chains' = IF drv'.deleted
                                     THEN [t \in Threads |-> <<>>]
                                     ELSE chains
                        /\ regions' =
                              [i \in SlotIds |->
                                  IF i \in MappedByReplay(rec'.log, rec'.trace)
                                  THEN Closed(regions[i]) ELSE regions[i]]
    /\ UNCHANGED <<numPRegions, files, roots, ExtentMap, mappings, tableLock,
                   fLock, thr, aborted>>
    /\ UNCHANGED <<maps, mapPtr, em, inserted, bar, hlp>>
    /\ UNCHANGED <<hasInstance, mode, mutex, lastRel, pending, ut, clock,
                   issued>>

RecoverDriver == DriverRun(FALSE)

\* A run of the driver that is killed while R_Finalize deletes the log
\* region.
RecoverDriverKilled == DriverRun(TRUE)

NextRecover == NextUser \/ RecoverDriver \/ RecoverDriverKilled

SpecRecover == InitLog /\ [][NextRecover]_vars

(***************************************************************************)
(* Region manager: properties                                              *)
(***************************************************************************)
\* Slots below the count that carry a name, and the (id, base) they bind.
SlotsNamed(n) == {i \in SlotIds : i < numPRegions /\ regions[i].name = n}
Binding(n) == {<<regions[i].id, regions[i].base>> : i \in SlotsNamed(n)}
LiveNamed(n) == {i \in SlotsNamed(n) : ~regions[i].is_deleted}
DeletedNamed(n) == {i \in SlotsNamed(n) : regions[i].is_deleted}

\* The body of operation op ran for thread t in this step and returned.
Returned(t, op) ==
    /\ thr[t].pc = "act" /\ thr[t].op = op
    /\ thr'[t].pc = "funlock"

\* The body of operation op ran for thread t in this step (it returned or
\* it died on an assertion).
BodyRan(t, op) ==
    /\ thr[t].pc = "act" /\ thr[t].op = op /\ ~aborted
    /\ (thr'[t].pc = "funlock" \/ aborted')

\* C6: once a name is bound to an (id, base_addr), no operation and no
\* restart changes that binding; every id returned for the name by
\* findOrCreate, find or create is the bound one, also when a deleted slot
\* is recreated.
C6_BindingStable ==
    [][/\ \A n \in Names : Binding(n) # {} => Binding(n)' = Binding(n)
       /\ \A t \in Threads : \A op \in {"findOrCreate", "find", "create"} :
             (Returned(t, op) /\ thr'[t].res.id # kInvalidPRegion_) =>
                 /\ thr'[t].res.id \in SlotIds
                 /\ Binding(thr[t].name)' =
                       {<<thr'[t].res.id, regions'[thr'[t].res.id].base>>}
                 /\ regions'[thr'[t].res.id].id = thr'[t].res.id]_vars

\* C6 witness: a deleted region of id 1 was recreated under its old id and
\* base address.
C6_Witness ==
    \E t \in Threads :
        /\ thr[t].pc = "funlock"
        /\ thr[t].op \in {"findOrCreate", "create"}
        /\ thr[t].res.branch = "reuse"
        /\ thr[t].res.id = 1
        /\ regions[1].base = 2 * kPRegionSize_

\* C7: findOrCreate returns the live slot's id with created = false; for a
\* name that only has a deleted slot it returns that slot's id, keeps its
\* base and reports created = true; for an unknown name it fills the slot
\* at the old count, whose id is the old count, adds one to the count and
\* reports created = true.
C7_FindOrCreateResult ==
    [][\A t \in Threads : Returned(t, "findOrCreate") =>
          LET n == thr[t].name
              r == thr'[t].res
          IN  /\ LiveNamed(n) # {} =>
                    /\ r.id \in {regions[i].id : i \in LiveNamed(n)}
                    /\ r.created = FALSE
                    /\ numPRegions' = numPRegions
              /\ (LiveNamed(n) = {} /\ DeletedNamed(n) # {}) =>
                    /\ \E i \in DeletedNamed(n) :
                          /\ r.id = regions[i].id
                          /\ regions'[i].id = regions[i].id
                          /\ regions'[i].base = regions[i].base
                          /\ ~regions'[i].is_deleted
                    /\ r.created = TRUE
                    /\ numPRegions' = numPRegions
              /\ SlotsNamed(n) = {} =>
                    /\ r.id = numPRegions
                    /\ regions'[numPRegions].name = n
                    /\ regions'[numPRegions].id = numPRegions
                    /\ numPRegions' = numPRegions + 1
                    /\ r.created = TRUE]_vars

\* C7 witness: findOrCreate of an unknown name filled slot 1 of a table
\* that held one region.
C7_Witness ==
    \E t \in Threads :
        /\ thr[t].pc = "funlock" /\ thr[t].op = "findOrCreate"
        /\ thr[t].res.branch = "new" /\ thr[t].res.created
        /\ thr[t].res.id = 1 /\ numPRegions = 2

\* C8: with several threads inside the region manager, the table never
\* holds two slots of one name, at most one thread is past the table mutex,
\* and a findOrCreate that reports created = true found no live slot of the
\* name: of the calls racing for an unknown name exactly one allocates.
NoDupNames ==
    \A i, j \in SlotIds :
        (i < numPRegions /\ j < numPRegions /\ i # j) =>
            regions[i].name # regions[j].name

InBody(t) == thr[t].pc \in {"flock", "search", "act", "funlock", "tunlock"}

C9_FindResult ==
    [][\A t \in Threads : BodyRan(t, "find") =>
          LET n == thr[t].name
              r == thr'[t].res
          IN  /\ numPRegions' = numPRegions
              /\ (~thr[t].in_recovery /\ LiveNamed(n) = {}) =>
                    /\ ~aborted'
                    /\ r.id = kInvalidPRegion_
                    /\ regions' = regions
                    /\ ExtentMap' = ExtentMap
                    /\ files' = files
                    /\ roots' = roots
              /\ (thr[t].in_recovery /\ DeletedNamed(n) # {}) =>
                    \E i \in DeletedNamed(n) :
                        /\ ~aborted'
                        /\ r.id = regions[i].id
                        /\ regions'[i] =
                              [regions[i] EXCEPT !.is_deleted = FALSE,
                                                 !.is_mapped = TRUE]
                        /\ [lo |-> regions[i].base,
                            hi |-> regions[i].base + kPRegionSize_ - 1,
                            id |-> regions[i].id] \in ExtentMap']_vars

\* C9 witness: find with is_in_recovery has mapped a deleted slot again.
C9_Witness ==
    \E t \in Threads :
        /\ thr[t].pc = "funlock" /\ thr[t].op = "find"
        /\ thr[t].in_recovery
        /\ thr[t].res.branch = "reuse" /\ thr[t].res.id = 1

\* C10: create on a name with a live slot fails (the assertion ends the
\* process) and leaves the count and every slot as they were; on an unknown
\* name it fills the slot at the old count; on a deleted name it keeps the
\* slot's id and base address.
C10_CreateResult ==
    [][\A t \in Threads : BodyRan(t, "create") =>
          LET n == thr[t].name
              r == thr'[t].res
          IN  /\ LiveNamed(n) # {} =>
                    /\ aborted'
                    /\ numPRegions' = numPRegions
                    /\ regions' = regions
              /\ (SlotsNamed(n) = {} /\ ~aborted') =>
                    /\ r.id = numPRegions
                    /\ regions'[numPRegions].name = n
                    /\ numPRegions' = numPRegions + 1
              /\ (LiveNamed(n) = {} /\ DeletedNamed(n) # {}) =>
                    \E i \in DeletedNamed(n) :
                        /\ ~aborted'
                        /\ r.id = regions[i].id
                        /\ regions'[i].id = regions[i].id
                        /\ regions'[i].base = regions[i].base
                        /\ ~regions'[i].is_deleted
                        /\ numPRegions' = numPRegions]_vars

\* C10 witness: create was called on a name whose slot is live and the
\* process died in it.
C10_Witness ==
    \E t \in Threads :
        /\ aborted
        /\ thr[t].pc = "act" /\ thr[t].op = "create"
        /\ LiveNamed(thr[t].name) # {}

(***************************************************************************)
(* Logging and recovery: properties                                        *)
(***************************************************************************)
Recovered == phase = "recovered" /\ rec.ran /\ ~rec.failed

EntryAt(lsp, p) == lsp[p[1]][p[2]]

\* The data entries of a log that cover word a, and the value one of them
\* recorded for a.
DataEntriesOn(lsp, a) ==
    {p \in Positions(lsp) :
        isData(EntryAt(lsp, p)) /\ a \in Covered(EntryAt(lsp, p))}

PreImage(le, a) ==
    IF le.Type = "str" THEN le.ValueOrPtr ELSE le.buf[a - le.Addr + 1]

\* Entry ids grow with the time an entry was written.
Earliest(lsp, a) ==
    CHOOSE p \in DataEntriesOn(lsp, a) :
        \A q \in DataEntriesOn(lsp, a) : EntryAt(lsp, p).id <= EntryAt(lsp, q).id

\* C1: after the recovery driver has completed, every word covered by a
\* str or memcpy entry of the log it ran on holds the pre-image recorded by
\* the earliest entry that covers it.
C1_EarliestPreImage ==
    Recovered =>
        \A a \in Addrs :
            DataEntriesOn(rec.log, a) # {} =>
                pmem[a] = PreImage(EntryAt(rec.log, Earliest(rec.log, a)), a)

\* What recovery left of FASE f, read off the words its data entries cover
\* (stored values grow with time, so a word below an entry's new value is
\* in a state from before that store).
FaseData(lsp, f) ==
    {p \in Positions(lsp) :
        isData(EntryAt(lsp, p)) /\ EntryAt(lsp, p).fase = f}

FullyUndone(lsp, f) ==
    \A p \in FaseData(lsp, f) :
        \A a \in Covered(EntryAt(lsp, p)) : pmem[a] < EntryAt(lsp, p).new

FullyPreserved(lsp, f) ==
    \A p \in FaseData(lsp, f) :
        \A a \in Covered(EntryAt(lsp, p)) : pmem[a] >= EntryAt(lsp, p).new

\* Release->acquire edges between different threads, as pairs of FASEs.
CrossEdges(lsp) ==
    {<<f, g>> \in FasesIn(lsp) \X FasesIn(lsp) :
        f[1] # g[1] /\ Observes(lsp, g, f)}

\* C2: after a crash and recovery, for every release R of thread t1 and
\* acquire A of thread t2 that observed R, the FASE of R and the FASE of A
\* are both fully undone or both fully preserved; when the FASE of A was
\* not committed the FASE of R is rolled back.
C2_EdgeNeverMixed ==
    (phase = "recovered" /\ ~rec.failed) =>
        \A e \in CrossEdges(rec.crashLog) :
            /\ \/ (FullyUndone(rec.crashLog, e[1]) /\
                   FullyUndone(rec.crashLog, e[2]))
               \/ (FullyPreserved(rec.crashLog, e[1]) /\
                   FullyPreserved(rec.crashLog, e[2]))
            /\ ~Committed(rec.crashLog, e[2]) =>
                   FullyUndone(rec.crashLog, e[1])

\* C3 as stated: a committed FASE that observed only committed FASEs is
\* preserved by recovery.
C3_CommittedPreserved ==
    (phase = "recovered" /\ ~rec.failed) =>
        \A f \in FasesIn(rec.crashLog) :
            (/\ Committed(rec.crashLog, f)
             /\ \A g \in FasesIn(rec.crashLog) :
                   Observes(rec.crashLog, f, g) => Committed(rec.crashLog, g))
            => FullyPreserved(rec.crashLog, f)

\* The FASEs tied to an uncommitted one: by an edge in either direction, or
\* by coming later in the thread of a FASE that is tied.
RECURSIVE TiedTo(_, _)
TiedTo(lsp, U) ==
    LET next == {f \in FasesIn(lsp) :
                    \E g \in U : \/ f = g
                                 \/ Observes(lsp, g, f)
                                 \/ Observes(lsp, f, g)
                                 \/ (f[1] = g[1] /\ f[2] > g[2])}
    IN  IF next = U THEN U ELSE TiedTo(lsp, next)

Uncommitted(lsp) == {f \in FasesIn(lsp) : ~Committed(lsp, f)}

\* C3: a committed FASE that no uncommitted FASE is tied to (no uncommitted
\* FASE observed it, directly or through other FASEs, and none precedes it
\* in its thread) is preserved by recovery; with both releases of scenario
\* S2 durable both stores stay.
C3_UnobservedCommittedPreserved ==
    (phase = "recovered" /\ ~rec.failed) =>
        \A f \in FasesIn(rec.crashLog) :
            (/\ Committed(rec.crashLog, f)
             /\ f \notin TiedTo(rec.crashLog, Uncommitted(rec.crashLog)))
            => FullyPreserved(rec.crashLog, f)

\* C3 witness: scenario S2 after recovery.  Both threads ran one committed
\* FASE on the lock, the second observed the first, each stored to its own
\* word, and both words still hold the stored values.
C3_Witness ==
    /\ phase = "recovered" /\ ~rec.failed
    /\ \E e \in CrossEdges(rec.crashLog) :
          /\ Committed(rec.crashLog, e[1]) /\ Committed(rec.crashLog, e[2])
          /\ \E p \in FaseData(rec.crashLog, e[1]),
                q \in FaseData(rec.crashLog, e[2]) :
                /\ EntryAt(rec.crashLog, p).Type = "str"
                /\ EntryAt(rec.crashLog, q).Type = "str"
                /\ EntryAt(rec.crashLog, p).Addr # EntryAt(rec.crashLog, q).Addr
                /\ pmem[EntryAt(rec.crashLog, p).Addr] =
                      EntryAt(rec.crashLog, p).new
                /\ pmem[EntryAt(rec.crashLog, q).Addr] =
                      EntryAt(rec.crashLog, q).new

\* A FASE is committed, while the program runs, once its release entry is
\* durable.
CommittedNow(f) ==
    \E p \in Positions(chains) :
        /\ EntryAt(chains, p).fase = f
        /\ EntryAt(chains, p).Type = "release"
        /\ EntryAt(chains, p).dur

\* The entry at p survives a crash: it and all before it are durable.
DurableReachable(p) == \A k \in 1 .. p[2] : chains[p[1]][k].dur

\* C4: in both flush modes, whenever a logged store of an uncommitted FASE
\* has been executed (so that its new value is durable or may become so at
\* any moment), a durable and reachable undo entry of that FASE covers the
\* word and holds the word's value from before the store.
C4_LogBeforeData ==
    (phase = "run" /\ hasInstance) =>
        \A s \in issued :
            ~CommittedNow(s.fase) =>
                \E p \in Positions(chains) :
                    /\ isData(EntryAt(chains, p))
                    /\ EntryAt(chains, p).fase = s.fase
                    /\ s.addr \in Covered(EntryAt(chains, p))
                    /\ EntryAt(chains, p).new = s.new
                    /\ PreImage(EntryAt(chains, p), s.addr) = s.old
                    /\ DurableReachable(p)

\* C4 witness: in the helper-batched mode the new value of a store is
\* durable, its flush is still batched and its FASE is not committed.
C4_Witness ==
    /\ phase = "run" /\ hasInstance /\ mode = "table"
    /\ \E s \in issued :
          /\ pmem[s.addr] = s.new
          /\ ~CommittedNow(s.fase)
          /\ s.addr \in pending[s.fase[1]]

\* C5: whenever a release entry is durable, every entry its thread wrote
\* since the matching acquire (the entries of its FASE) is durable.
C5_FaseDurableBeforeRelease ==
    phase = "run" =>
        \A p \in Positions(chains) :
            (EntryAt(chains, p).Type = "release" /\ EntryAt(chains, p).dur) =>
                \A k \in 1 .. p[2] :
                    chains[p[1]][k].fase = EntryAt(chains, p).fase =>
                        chains[p[1]][k].dur

\* C5 witness: a durable release entry whose FASE logged a store.
C5_Witness ==
    /\ phase = "run"
    /\ \E p \in Positions(chains) :
          /\ EntryAt(chains, p).Type = "release" /\ EntryAt(chains, p).dur
          /\ \E k \in 1 .. p[2] :
                /\ chains[p[1]][k].fase = EntryAt(chains, p).fase
                /\ chains[p[1]][k].Type = "str"

(***************************************************************************)
(* Region lifecycle: close, delete, roots                                  *)
(***************************************************************************)
\* What of a slot outlives a close: name, id, base, deleted bit and root.
Kept(i) ==
    <<regions[i].name, regions[i].id, regions[i].base, regions[i].is_deleted,
      getRoot(i)>>

\* C11: close(id) on a mapped region unmaps it and marks it not mapped, and
\* leaves the slot's name, id, base address, deleted bit and root, every
\* other slot and the count unchanged; a findOrCreate of the name of a
\* live slot then maps it again and returns the slot's id with
\* created = false and the root it had.
C11_CloseKeepsSlot ==
    [][\A t \in Threads :
          /\ Returned(t, "close") =>
                LET rid == thr[t].rgn
                IN  /\ ~regions'[rid].is_mapped
                    /\ ~Mapped(regions[rid].base)'
                    /\ Kept(rid)' = Kept(rid)
                    /\ numPRegions' = numPRegions
                    /\ \A j \in SlotIds \ {rid} :
                          regions'[j] = regions[j] /\ roots'[j] = roots[j]
          /\ (Returned(t, "findOrCreate") /\ Found(t)
                 /\ ~regions[thr[t].rgn].is_deleted) =>
                LET rgn == thr[t].rgn
                IN  /\ thr'[t].res.id = regions[rgn].id
                    /\ ~thr'[t].res.created
                    /\ Kept(rgn)' = Kept(rgn)
                    /\ regions'[rgn].is_mapped
                    /\ Mapped(regions[rgn].base)']_vars

\* A close has returned on a region whose root had been set.
C11_Witness ==
    \E t \in Threads :
       /\ thr[t].pc = "funlock" /\ thr[t].op = "close"
       /\ ~regions[thr[t].rgn].is_mapped
       /\ getRoot(thr[t].rgn) # 0
       /\ regions[thr[t].rgn].name # NoName

\* The thread is inside the body of deletePRegion, past its assertions.
InDelete(t) ==
    /\ thr[t].op = "delete"
    /\ \E k \in 1 .. Len(DeleteSequence) : thr[t].pc = DeleteSequence[k]

\* C12: delete(name) marks the slot deleted in an earlier statement than
\* the one that unlinks the region file, so at every crash point a file
\* that delete removed belongs to a slot marked deleted; no statement of
\* delete changes the slot's id or base or the count; and when delete
\* returns the region is unmapped, the slot is deleted, and a find of the
\* name without in_recovery misses.
C12_DeleteMarksBeforeUnlink ==
    [][/\ \A n \in Names :
             (n \in files /\ n \notin files') =>
                 (SlotsNamed(n) # {} /\
                  \A i \in SlotsNamed(n) : regions[i].is_deleted)
       /\ \A t \in Threads :
             (InDelete(t) /\ ~InDelete(t)' /\ thr'[t].pc = "funlock") =>
                 LET rgn == thr[t].rgn
                     s == searchPRegion(thr[t].name)'
                 IN  /\ regions'[rgn].is_deleted
                     /\ ~regions'[rgn].is_mapped
                     /\ ~Mapped(regions[rgn].base)'
                     /\ thr[t].name \notin files'
                     /\ thr'[t].res.id = regions'[rgn].id
                     /\ (s = kInvalidPRegion_ \/ regions'[s].is_deleted)
       /\ \A t \in Threads :
             (InDelete(t) /\ thr'[t].pc # "idle") =>
                 LET rgn == thr[t].rgn
                 IN  /\ regions'[rgn].id = regions[rgn].id
                     /\ regions'[rgn].base = regions[rgn].base
                     /\ regions'[rgn].name = regions[rgn].name
                     /\ numPRegions' = numPRegions]_vars

\* delete is at its last statement on a region that was mapped in this
\* process: the slot is marked and unmapped, the file is still there.
C12_Witness ==
    \E t \in Threads :
       /\ InDelete(t) /\ thr[t].pc = "unlink"
       /\ regions[thr[t].rgn].is_deleted
       /\ ~regions[thr[t].rgn].is_mapped
       /\ thr[t].name \in files
       /\ \E e \in ExtentMap : e.id = regions[thr[t].rgn].id

\* The region table: the count and the slots.
Table == <<numPRegions, regions>>

\* Slots below the count whose window holds the address.
SlotsHolding(addr) ==
    {i \in SlotIds : /\ i < numPRegions
                     /\ regions[i].base <= addr
                     /\ addr < regions[i].base + kPRegionSize_}

Creates(t, i) ==
    /\ \/ BodyRan(t, "findOrCreate")
       \/ BodyRan(t, "create")
       \/ BodyRan(t, "find") /\ Found(t) /\ thr[t].in_recovery
    /\ i = (IF Found(t) THEN thr[t].rgn ELSE numPRegions)
    /\ (Found(t) => regions[thr[t].rgn].is_deleted)

\* The step is setPRegionRoot(i, p) returning to thread t.
SetsRoot(t, i, p) ==
    /\ thr[t].pc = "idle" /\ thr'[t].pc = "ret"
    /\ thr'[t].op = "setRoot" /\ thr'[t].rid = i /\ thr'[t].res.id = p

\* C14: after setRoot(id, p) getRoot(id) is p, and it stays p until the
\* next setRoot of the region or until the region is created anew: a
\* close, a reopening, any other operation and a crash with restart leave
\* it alone.
C14_RootRoundTrip ==
    [][/\ \A t \in Threads, i \in SlotIds, p \in RootValues :
             SetsRoot(t, i, p) => getRoot(i)' = p
       /\ \A i \in SlotIds :
             getRoot(i)' # getRoot(i) =>
                \/ \E t \in Threads : SetsRoot(t, i, getRoot(i)')
                \/ \E t \in Threads : Creates(t, i) /\ getRoot(i)' = 0]_vars

\* A region that was unmapped and opened again still has the root it was
\* given.
C14_Witness ==
    \E t \in Threads :
       /\ thr[t].pc = "funlock" /\ thr[t].res.branch = "existing"
       /\ getRoot(thr[t].res.id) # 0
       /\ Mapped(regions[thr[t].res.id].base)

\* The step is the setRoot statement of thread t.
RootSetBy(t) ==
    /\ ut'[t].kind = "setRoot"
    /\ ut'[t].ops = ut[t].ops + 1

\* The stores thread t has executed so far.
StoresOf(t) == {e \in issued : e.fase[1] = t}

\* C15: setRoot acts as a release.  In the state that holds the new root,
\* every store the calling thread executed before the call is durable (the
\* durable word holds its value or a later one), and the root changes in
\* no other step, so a crash never finds a new root ahead of that data.
C15_RootAfterFlush ==
    [][/\ \A t \in Threads :
             RootSetBy(t) =>
                /\ getRoot(0)' = ut'[t].val
                /\ \A e \in StoresOf(t) : pmem'[e.addr] >= e.new
       /\ getRoot(0)' # getRoot(0) => \E t \in Threads : RootSetBy(t)]_vars

\* In the batched mode a thread has set the root after a store of its
\* critical section, and that store is durable.
C15_Witness ==
    \E t \in Threads :
       /\ mode = "table" /\ hasInstance /\ phase = "run"
       /\ ut[t].kind = "setRoot" /\ getRoot(0) = ut[t].val
       /\ getRoot(0) # 0
       /\ StoresOf(t) # {}
       /\ \A e \in StoresOf(t) : pmem[e.addr] >= e.new

\* C16: a call that returns from creating a region, in a new slot or in a
\* deleted one, leaves the region's root null; a call that returns from
\* opening an existing live region (findOrCreate, find, ensureMapped)
\* leaves the root as it was.
C16_RootNullOnCreate ==
    [][\A t \in Threads :
          /\ \A i \in SlotIds :
                (Creates(t, i) /\ ~aborted') => getRoot(i)' = 0
          /\ \A op \in {"findOrCreate", "find"} :
                (Returned(t, op) /\ thr'[t].res.branch = "existing") =>
                    /\ getRoot(thr[t].rgn)' = getRoot(thr[t].rgn)
                    /\ Mapped(regions[thr[t].rgn].base)'
          /\ (thr[t].pc = "idle" /\ thr'[t].op = "ensureMapped") =>
                \A i \in SlotIds : getRoot(i)' = getRoot(i)]_vars

\* ensurePRegionMapped has mapped an existing region whose root was set
\* in an earlier life of the mapping.
C16_Witness ==
    \E t \in Threads :
       /\ thr[t].pc = "ret" /\ thr[t].op = "ensureMapped"
       /\ thr[t].res.branch = "existing"
       /\ getRoot(thr[t].rid) # 0
       /\ Mapped(regions[thr[t].rid].base)

(***************************************************************************)
(* The extent map                                                          *)
(***************************************************************************)
\* C17: a getOpenPRegionId that loads the map pointer after insert(lo, hi,
\* id) has returned finds id for every address of [lo, hi], whatever the
\* interleaving of readers and inserting threads; and the map object a
\* reader loaded, like the published one, is never written again, so no
\* reader sees a map being built.
C17_ExtentMapLinearizable ==
    [][/\ \A t \in Threads :
             (em[t].pc = "find" /\ em'[t].pc = "found") =>
                 \A e \in em[t].seen :
                    (e.lo <= em[t].addr /\ em[t].addr <= e.hi)
                        => em'[t].res = e.id
       /\ \A t \in Threads :
             em[t].pc = "find" =>
                 maps'[em[t].map_ptr] = maps[em[t].map_ptr]
       /\ maps'[mapPtr] = maps[mapPtr]
       /\ \A e \in inserted : e \in maps'[mapPtr']]_vars

\* A reader has found an extent that one thread inserted while the other
\* thread's insertion had to go round its loop again.
C17_Witness ==
    \E t \in Threads :
       /\ em[t].pc = "found" /\ em[t].res # kInvalidPRegion_
       /\ em[t].seen # {}
       /\ Cardinality(inserted) >= 2
       /\ Len(maps) >= 4

\* The region currently mapped at the address, or kInvalidPRegion_: a live
\* slot flagged mapped whose window holds the address and is mapped in
\* this process.
MappedRegionAt(addr) ==
    LET hits == {i \in SlotsHolding(addr) :
                    /\ regions[i].is_mapped
                    /\ ~regions[i].is_deleted
                    /\ Mapped(regions[i].base)}
    IN  IF hits = {} THEN kInvalidPRegion_
        ELSE regions[CHOOSE i \in hits : TRUE].id

\* C18: in every state of a running process getOpenPRegionId(addr, 1) is
\* the id of the region currently mapped at addr, and kInvalidPRegion_
\* when there is none: the extent map holds exactly the windows of the
\* mapped regions, also after close, delete and
\* deleteForcefullyAllPRegions.
C18_ExtentsAreMappedRegions ==
    ~aborted =>
        \A addr \in PAddrs : getOpenPRegionId(addr, 1) = MappedRegionAt(addr)

\* The span sizes a store can have: within a region, and one more than a
\* region holds.
SpanSizes == 1 .. (kPRegionSize_ + 1)

\* C19: getOpenPRegionId(addr, sz) returns a region id only when every
\* address of [addr, addr + sz - 1] lies in that one mapped region; a span
\* that leaves the region it starts in, into another region or into no
\* region, gets kInvalidPRegion_.
C19_SpanInOneMappedRegion ==
    ~aborted =>
        \A addr \in PAddrs : \A sz \in SpanSizes :
            LET rid == getOpenPRegionId(addr, sz)
            IN  rid # kInvalidPRegion_ =>
                    \A a \in addr .. (addr + sz - 1) : MappedRegionAt(a) = rid

\* What a process reads of the table: the count and the slots below it.
VisibleTable ==
    <<numPRegions, [i \in {j \in SlotIds : j < numPRegions} |-> regions[i]]>>

\* The thread is between the first and the last statement of a creation
\* in a new slot.
InNewSlot(t) ==
    /\ thr[t].res.branch = "new"
    /\ thr[t].pc \in {"PRegion", "mapFile", "insertExtent", "initPRegionRoot",
                      "setNumPRegions"}

\* C20: the count never decreases; a creation in a new slot writes the
\* slot while the count still is the slot's index and writes the count as
\* its last statement, by one, over a slot that already carries the name;
\* and every step before the count write, a crash included, leaves the
\* count and the slots below it as they were when the creation started.
C20_CountCommitsCreation ==
    [][/\ numPRegions' >= numPRegions
       /\ \A t \in Threads :
             InNewSlot(t) =>
                /\ thr[t].pc # "setNumPRegions" =>
                       VisibleTable' = VisibleTable
                /\ regions' # regions =>
                       /\ numPRegions' = numPRegions
                       /\ thr[t].rgn = numPRegions
                /\ numPRegions' # numPRegions =>
                       /\ thr[t].pc = "setNumPRegions"
                       /\ numPRegions' = numPRegions + 1
                       /\ regions' = regions
                       /\ regions[numPRegions].name = thr[t].name
                       /\ ~InNewSlot(t)']_vars

\* A process restarted after a crash between the slot write and the count
\* write of a creation that had room: the slot at the count carries a name.
C20_Witness ==
    /\ ~aborted
    /\ \A t \in Threads : thr[t].pc = "idle"
    /\ numPRegions + 1 < kMaxNumPRegions_
    /\ regions[numPRegions].name # NoName

\* The slots a process reads: those below the count.
VisibleSlots == {i \in SlotIds : i < numPRegions}

\* C21: at every point where a crash can strike, a slot below the count
\* that is not marked deleted has its region file, and a creation that has
\* constructed its slot but not yet mapped the file and zeroed the root
\* works on a slot that is above the count or marked deleted.
C21_TornCreationLeavesDeleted ==
    /\ \A i \in VisibleSlots :
          ~regions[i].is_deleted => regions[i].name \in files
    /\ \A t \in Threads :
          thr[t].pc \in {"mapFile", "insertExtent", "initPRegionRoot"} =>
              \/ thr[t].rgn \notin VisibleSlots
              \/ regions[thr[t].rgn].is_deleted

\* C22: without a Log Manager every step of the instrumented program in
\* the build that calls nvm_acquire, nvm_store, nvm_memcpy, nvm_barrier,
\* nvm_psync_acq and nvm_release returns normally, appends no log entry
\* and leaves the Log Manager's state alone.
C22_UninitializedIsNoOp ==
    [][(~hasInstance /\ mode = "barrier" /\ phase = "run") =>
          /\ ~aborted'
          /\ chains' = chains
          /\ pending' = pending
          /\ lastRel' = lastRel]_vars

\* C23: a call of nvm_barrier(p) made while a region is mapped at p issues
\* full_fence, nvm_clflush(p), full_fence and nothing else, in that order
\* (all three once it has returned); a call made while no region is mapped
\* at p issues no fence and no flush.
C23_BarrierFenceFlushFence ==
    \A t \in Threads :
        bar[t].called =>
            IF bar[t].open
            THEN /\ \E k \in 0 .. 3 :
                       bar[t].prims =
                           SubSeq(<<<<"full_fence">>,
                                    <<"nvm_clflush", bar[t].p>>,
                                    <<"full_fence">>>>, 1, k)
                 /\ (bar[t].pc = 0 /\ ~aborted) => Len(bar[t].prims) = 3
            ELSE bar[t].prims = <<>>

\* The step is a run of the recovery driver.
DriverRuns == drv'.runs = drv.runs + 1

\* C24: a run of the recovery driver that follows an earlier run on the
\* same crashed state leaves the user region as the earlier run left it;
\* after a run that ended in R_Finalize it finds no log, exits with 0 and
\* replays nothing.
C24_RecoveryIdempotent ==
    [][(DriverRuns /\ drv.runs >= 1) =>
          /\ pmem' = pmem
          /\ drv.status \in {"done", "exit 0"} =>
                 /\ drv'.status = "exit 0"
                 /\ drv'.trace = <<>>]_vars

\* The driver ran a second time after a run that undid data entries and
\* deleted the log region.
C24_Witness ==
    /\ drv.runs = 2
    /\ drv.deleted
    /\ drv.status = "exit 0"
    /\ rec.ran /\ ~rec.failed /\ rec.trace # <<>>

\* C25: a run of the recovery driver that finds no log file (the program
\* never had a Log Manager, or an earlier run deleted the log region) or a
\* null log header exits with status 0, replays no entry, maps no user
\* region and leaves the user region as it was.
C25_NoLogExitsClean ==
    [][(/\ DriverRuns
        /\ \/ ~hasInstance
           \/ drv.deleted
           \/ GetLogStructureHeader = NoHeader) =>
          /\ drv'.status = "exit 0"
          /\ drv'.trace = <<>>
          /\ drv'.mapped = {}
          /\ pmem' = pmem
          /\ regions' = regions]_vars

\* The driver ran on the crashed state of a program that stored to its
\* region without a Log Manager.
C25_Witness ==
    /\ ~hasInstance
    /\ drv.runs = 1
    /\ drv.status = "exit 0"
    /\ \E a \in Addrs : pmem[a] # 0

\* The driver ran on a log region whose header was null.
C25_WitnessNullHeader ==
    /\ hasInstance
    /\ drv.runs = 1
    /\ drv.status = "exit 0"
    /\ drv.deleted

\* The release entries of a lock logged before the entry with the given id.
ReleasesBefore(l, id) ==
    {chains[p[1]][p[2]].id : p \in
        {q \in Positions(chains) :
            /\ chains[q[1]][q[2]].Type = "release"
            /\ chains[q[1]][q[2]].Addr = l
            /\ chains[q[1]][q[2]].id < id}}

\* C26: while the program runs, every acquire entry records the latest
\* release entry logged for its lock before it, and 0 when there is none;
\* a thread logs its acquire, its release and the publication of the
\* release while it holds the mutex; and null is the key of no edge of
\* the release->acquire map.
C26_AcquireRecordsLastRelease ==
    (phase = "run" /\ hasInstance) =>
        /\ \A p \in Positions(chains) :
              LET le == chains[p[1]][p[2]]
                  rels == ReleasesBefore(le.Addr, le.id)
              IN  le.Type = "acquire" =>
                      IF rels = {} THEN le.ValueOrPtr = 0
                      ELSE /\ le.ValueOrPtr \in rels
                           /\ \A r \in rels : r <= le.ValueOrPtr
        /\ \A t \in Threads :
              ut[t].pc \in {"nvm_acquire", "body", "op", "publish", "unlock"}
                  => mutex[ut[t].lock] = t
        /\ map_r2a(chains, 0) = <<>>

\* Both threads have acquired the same lock: one acquire entry records 0
\* and the other the release entry of the first critical section.
C26_Witness ==
    /\ phase = "run" /\ hasInstance
    /\ \E p, q \in Positions(chains) :
          /\ p[1] # q[1]
          /\ chains[p[1]][p[2]].Type = "acquire"
          /\ chains[p[1]][p[2]].ValueOrPtr = 0
          /\ chains[q[1]][q[2]].Type = "acquire"
          /\ chains[q[1]][q[2]].Addr = chains[p[1]][p[2]].Addr
          /\ chains[q[1]][q[2]].ValueOrPtr # 0

EntriesAt(lsp, a) ==
    {p \in Positions(lsp) :
        lsp[p[1]][p[2]].Addr = a /\ lsp[p[1]][p[2]].Type \in {"alloc", "free"}}

\* The event of the object at a that was logged first.
EarliestEvent(lsp, a) ==
    LET first == CHOOSE p \in EntriesAt(lsp, a) :
                     \A q \in EntriesAt(lsp, a) :
                         lsp[p[1]][p[2]].id <= lsp[q[1]][q[2]].id
    IN  lsp[first[1]][first[2]].Type

RecoveryDone == phase = "recovered" /\ rec.ran /\ ~rec.failed

\* C27: after recovery the in-use flag of every object whose first logged
\* event is an alloc is "free" (an alloc followed by a free in the same
\* uncommitted FASE included: the free is undone before the alloc), and of
\* every object whose only logged events are frees is "in use".
C27_FlagsAfterRecovery ==
    RecoveryDone =>
        \A a \in Addrs :
            /\ (/\ EntriesAt(rec.log, a) # {}
                /\ EarliestEvent(rec.log, a) = "alloc")
                  => pmem[a] = kNotInUse
            /\ (/\ EntriesAt(rec.log, a) # {}
                /\ \A p \in EntriesAt(rec.log, a) :
                       rec.log[p[1]][p[2]].Type = "free")
                  => pmem[a] = kInUse

\* The entries the recovery driver would start from after a crash now.
Reachable ==
    LET lsp == UsedHeader(RootHeader, RecoveryHeader)
    IN  {lsp[p[1]][p[2]].id : p \in Positions(lsp)}

\* The store an entry logged is durable in place: the word holds its value
\* or that of a later store.
DataDurable(le) == \A a \in Covered(le) : pmem[a] >= le.new

\* C28: at every crash point, every store whose log entry is not reachable
\* from the header recovery uses has its data durable in place (the helper
\* flushed it before publishing the header that omits the entry), and every
\* reclaimed entry is one the published header omits.
C28_OmittedDataIsDurable ==
    /\ \A p \in Positions(chains) :
          LET le == chains[p[1]][p[2]]
          IN  (le.dur /\ isData(le) /\ le.id \notin Reachable)
                  => DataDurable(le)
    /\ \A t \in Threads : hlp.freed[t] <= hlp.header[t]

\* The helper, alone in flushing data, has published a header that omits a
\* store and reclaimed its entry, and the process has crashed.
C28_Witness ==
    /\ phase = "crashed"
    /\ mode = "global"
    /\ \E p \in Positions(chains) :
          /\ isData(chains[p[1]][p[2]])
          /\ chains[p[1]][p[2]].id \notin Reachable
          /\ p[2] <= hlp.freed[p[1]]

\* The FASEs that the FASEs of S observed, directly or through other FASEs.
RECURSIVE ObservedFrom(_, _)
ObservedFrom(pairs, S) ==
    LET more == {e[2] : e \in {x \in pairs : x[1] \in S}} \ S
    IN  IF more = {} THEN S ELSE ObservedFrom(pairs, S \cup more)

\* The FASEs of a log that an uncommitted FASE of it can reach along
\* release->acquire edges.
ReachedByUncommitted(lsp) ==
    ObservedFrom(ObservedPairs(lsp),
                 {f \in FasesIn(lsp) : ~Committed(lsp, f)})

\* The FASEs with an entry among the first n[t] entries of thread t's chain,
\* and not among the first m[t].
FasesBetween(m, n) ==
    {chains[p[1]][p[2]].fase :
        p \in {q \in Positions(chains) :
                  q[2] > m[q[1]] /\ q[2] <= n[q[1]]}}

FaseDurable(f) ==
    \A p \in Positions(chains) :
        LET le == chains[p[1]][p[2]]
        IN  (le.fase = f /\ isData(le)) => DataDurable(le)

TraceIds(trace) == {trace[i] : i \in DOMAIN trace}

\* A log entry for a since-freed address: a free entry for the same address
\* was logged after it, so the generation the entry carries is no longer
\* the one expected for its address.
GenerationMismatch(lsp, le) ==
    \E p \in Positions(lsp) :
        /\ EntryAt(lsp, p).Type = "free"
        /\ EntryAt(lsp, p).Addr = le.Addr
        /\ EntryAt(lsp, p).id > le.id

UndoneAt(trace, id) == {i \in DOMAIN trace : trace[i] = id}

\* The release->acquire edges of a log whose two entries are both in it:
\* <<r, a>> with r the position of a release or free entry and a the
\* position of an acquire, alloc or free entry that recorded it.
EdgesIn(lsp) ==
    {e \in Positions(lsp) \X Positions(lsp) :
        /\ EntryAt(lsp, e[1]).Type \in {"release", "free"}
        /\ EntryAt(lsp, e[2]).Type \in {"acquire", "alloc", "free"}
        /\ EntryAt(lsp, e[2]).ValueOrPtr # NoEntry
        /\ EntryAt(lsp, e[2]).ValueOrPtr = EntryAt(lsp, e[1]).id}

\* C32: for every edge from release R to acquire A with both entries in
\* the log, every write-back of A or of an entry after A in A's thread
\* comes before every write-back of an entry that precedes R in R's thread.
C32_EdgesHonored ==
    RecoveryDone =>
        \A e \in EdgesIn(rec.log) :
            \A x, y \in Positions(rec.log) :
                (/\ x[1] = e[2][1] /\ x[2] >= e[2][2]
                 /\ y[1] = e[1][1] /\ y[2] < e[1][2])
                    => \A i \in UndoneAt(rec.trace, EntryAt(rec.log, x).id),
                          j \in UndoneAt(rec.trace, EntryAt(rec.log, y).id) :
                           i < j

\* C33: over a whole recovery run every data entry of the log is written
\* back exactly once, and the entries of one thread are written back in
\* strictly reverse program order.
C33_EachEntryUndoneOnce ==
    Recovered =>
        /\ \A p \in Positions(rec.log) :
              isData(EntryAt(rec.log, p)) =>
                  Cardinality(UndoneAt(rec.trace, EntryAt(rec.log, p).id)) = 1
        /\ \A p, q \in Positions(rec.log) :
              (/\ p[1] = q[1] /\ p[2] < q[2]
               /\ isData(EntryAt(rec.log, p)) /\ isData(EntryAt(rec.log, q)))
                  => \A i \in UndoneAt(rec.trace, EntryAt(rec.log, p).id),
                        j \in UndoneAt(rec.trace, EntryAt(rec.log, q).id) :
                         j < i

\* The alloc and acquire entries of a log that recorded a free entry of it:
\* <<f, a>> with f the position of the free entry.
FreeEdges(lsp) ==
    {e \in EdgesIn(lsp) :
        /\ EntryAt(lsp, e[1]).Type = "free"
        /\ EntryAt(lsp, e[2]).Type \in {"alloc", "acquire"}}

\* C34: when an alloc entry A of one thread recorded free entry F of
\* another, every write-back of A (flag := free) comes before every
\* write-back of F (flag := in use), and the flag ends "in use" when F is
\* the first event logged for the object.
C34_FreeIsPseudoRelease ==
    RecoveryDone =>
        \A e \in FreeEdges(rec.log) :
            LET F == EntryAt(rec.log, e[1])
                A == EntryAt(rec.log, e[2])
            IN  /\ UndoneAt(rec.trace, F.id) # {}
                /\ A.Type = "alloc" => UndoneAt(rec.trace, A.id) # {}
                /\ \A i \in UndoneAt(rec.trace, A.id),
                      j \in UndoneAt(rec.trace, F.id) : i < j
                /\ (\A p \in EntriesAt(rec.log, F.Addr) :
                        EntryAt(rec.log, p).id >= F.id)
                       => pmem[F.Addr] = kInUse

\* The entries Replay writes back.
isReplayed(le) == isData(le) \/ le.Type \in {"alloc", "free"}

\* The index of the entry of a chain written last before the entry at k,
\* 0 when the entry at k is the first one written.
ProgramOrderPredecessor(chain, k) ==
    LET older == {j \in DOMAIN chain : chain[j].id < chain[k].id}
    IN  IF older = {} THEN 0
        ELSE CHOOSE j \in older : \A i \in older : chain[i].id <= chain[j].id

\* What the table-building pass and the undo walk make of the chain of tid:
\* prev is the program-order predecessor, first_log the oldest entry and
\* last_log the newest, the first entry of the thread written back is its
\* newest and the walk reaches its oldest.
TablesAndWalk(lsp, trace, tid) ==
    LET chain == Chain(lsp, tid)
        mine == {k \in DOMAIN chain : isReplayed(chain[k])}
    IN  /\ \A k \in DOMAIN chain :
              /\ GetPrevLogEntry(k) = ProgramOrderPredecessor(chain, k)
              /\ chain[first_log_tracker(lsp, tid)].id <= chain[k].id
              /\ chain[last_log_tracker(lsp)[tid]].id >= chain[k].id
        /\ \A k \in mine : UndoneAt(trace, chain[k].id) # {}
        /\ \A k, n \in mine :
              k < n => \E j \in UndoneAt(trace, chain[n].id) :
                           \A i \in UndoneAt(trace, chain[k].id) : j < i

\* C35 as stated: the chain is newest-first when walked from the header
\* via next, prev is the program-order predecessor, and the undo walk runs
\* from the newest entry to the oldest.
C35_ChainNewestFirst ==
    Recovered =>
        \A tid \in Tids(rec.log) :
            /\ \A k \in 1 .. (Len(Chain(rec.log, tid)) - 1) :
                  Chain(rec.log, tid)[k].id > Chain(rec.log, tid)[k + 1].id
            /\ TablesAndWalk(rec.log, rec.trace, tid)

\* C35: the chain is oldest-first when walked from the header via next:
\* the header's entry is the oldest and next leads to the entry written
\* after it.  The table-building pass therefore yields prev as the
\* program-order predecessor, and the undo walk starts at the newest entry
\* and reaches the oldest.
C35_ChainOldestFirst ==
    Recovered =>
        \A tid \in Tids(rec.log) :
            /\ \A k \in 1 .. (Len(Chain(rec.log, tid)) - 1) :
                  Chain(rec.log, tid)[k].id < Chain(rec.log, tid)[k + 1].id
            /\ TablesAndWalk(rec.log, rec.trace, tid)

\* Recovery ran on a log with a chain of two data entries and undid both.
C35_Witness ==
    /\ Recovered
    /\ \E tid \in Tids(rec.log) :
          \E k, n \in DOMAIN Chain(rec.log, tid) :
              /\ k < n
              /\ isData(Chain(rec.log, tid)[k])
              /\ isData(Chain(rec.log, tid)[n])
              /\ Chain(rec.log, tid)[k].id \in TraceIds(rec.trace)
              /\ Chain(rec.log, tid)[n].id \in TraceIds(rec.trace)

\* The entries MarkReplayed is meant for.
isMarked(le) == le.Type \in {"acquire", "alloc", "free"}

LogMarkedNotUnlinked == hasInstance /\ drv.marked /\ ~drv.deleted

\* C37: a run of the recovery driver that starts with the log region's
\* slot marked deleted and the log file still present re-maps the slot
\* with a null root: the run finds no log header, undoes no entry, maps no
\* user region, leaves the user region as it was, deletes the log region
\* again and exits with status 0.
C37_DeletedLogSlotRemapped ==
    [][(DriverRuns /\ LogMarkedNotUnlinked) =>
          /\ drv'.status = "exit 0"
          /\ drv'.trace = <<>>
          /\ drv'.mapped = {}
          /\ drv'.marked /\ drv'.deleted
          /\ chains' = [t \in Threads |-> <<>>]
          /\ rec' = rec
          /\ pmem' = pmem]_vars

\* The driver ran to its end on a log region that an earlier run, killed
\* while deleting it, had left marked deleted with data entries in it.
C37_Witness ==
    /\ hasInstance
    /\ drv.runs = 1
    /\ drv.status = "exit 0"
    /\ drv.marked /\ drv.deleted
    /\ rec.ran /\ ~rec.failed /\ rec.trace # <<>>

\* ---------------------------------------------------------------------
\* Recovery: termination
\* ---------------------------------------------------------------------

\* The number of entries of a log.
NumEntries(lsp) == Cardinality(Positions(lsp))

\* The threads that have a chain in a log.
ThreadsWithLog(lsp) == {tid \in Tids(lsp) : Chain(lsp, tid) # <<>>}

\* C38: Recover comes to its end on every log an execution leaves at a
\* crash: no call of Recover(int) starts at or above a release at which a
\* call of its thread is switching, the number of calls that reach the loop
\* is at most the number of entries plus the number of threads, no
\* assertion fails, and at the end every thread that has a chain is in
\* done_threads.
C38_RecoverTerminates ==
    (phase = "recovered" /\ rec.ran) =>
        /\ rec.below
        /\ ~rec.failed
        /\ rec.calls <= NumEntries(rec.log) + Cardinality(Tids(rec.log))
        /\ rec.done = ThreadsWithLog(rec.log)

\* Recovery ran on a log on which it called Recover(int) more often than
\* there are threads: a call switched to a thread that switched back.
C38_Witness ==
    /\ phase = "recovered" /\ rec.ran /\ ~rec.failed
    /\ rec.calls > Cardinality(ThreadsWithLog(rec.log))
    /\ rec.done = ThreadsWithLog(rec.log)
    /\ Cardinality(ThreadsWithLog(rec.log)) = 2

\* ---------------------------------------------------------------------
\* Region manager: locking
\* ---------------------------------------------------------------------

\* A step of a thread inside a public operation of the region manager,
\* from the acquisition of the table mutex to its release.
OpStep(t) ==
    \/ acquireTableLock(t)
    \/ acquireTableLockForcefully(t)
    \/ acquireTableLockForcefullyByName(t)
    \/ acquireExclusiveFLock(t)
    \/ Lookup(t)
    \/ findOrCreatePRegion(t)
    \/ findPRegion(t)
    \/ createPRegion(t)
    \/ closePRegion(t)
    \/ deletePRegion(t)
    \/ deleteForcefullyAllPRegions(t)
    \/ deleteForcefullyPRegionByName(t)
    \/ releaseFLock(t)
    \/ releaseTableLock(t)

\* The thread is inside a public operation.
InOperation(t) == thr[t].pc # "idle"

\* C39: the locking of the region manager cannot deadlock.  The file lock
\* is held only by the holder of the table mutex, so the mutex is taken
\* first; a thread that is about to release the mutex has released the
\* file lock, so the locks go in reverse order; a thread outside an
\* operation, or waiting for the mutex, holds neither lock, so every
\* return path released both; and while the process runs and some thread
\* is inside an operation, some thread inside an operation can take a
\* step.
C39_LockingDeadlockFree ==
    /\ \A t \in Threads :
          /\ fLock = t => tableLock = t
          /\ thr[t].pc = "tunlock" => (tableLock = t /\ fLock # t)
          /\ thr[t].pc \in {"idle", "tlock"} => (tableLock # t /\ fLock # t)
          /\ thr[t].pc \in {"search", "act", "funlock"} =>
                 (tableLock = t /\ fLock = t)
    /\ (~aborted /\ \E t \in Threads : InOperation(t)) =>
           \E t \in Threads : InOperation(t) /\ ENABLED OpStep(t)

\* A thread has deleted a region under both locks and is about to release
\* them while the other thread waits for the table mutex.
C39_Witness ==
    /\ ~aborted
    /\ \E t, u \in Threads :
          /\ thr[t].pc = "funlock" /\ thr[t].res.branch = "delete"
          /\ tableLock = t /\ fLock = t
          /\ thr[u].pc = "tlock"
          /\ ~ENABLED OpStep(u)

\* ---------------------------------------------------------------------
\* Region manager: the table
\* ---------------------------------------------------------------------

\* A thread runs the body of a creation that finds no slot of the name.
CreatesNewSlot(t) ==
    /\ createPRegion(t) \/ findOrCreatePRegion(t)
    /\ ~Found(t)

\* C40: in every reachable region table the slot at index i below the
\* count has id i, no two slots below the count share an id or a name, and
\* the count is below kMaxNumPRegions_; the count changes only by one, to
\* the index after a slot that carries its own index; and a creation in a
\* table that holds kMaxNumPRegions_ - 1 slots ends the process and leaves
\* the count as it was.
C40_TableWellFormed ==
    /\ [](/\ numPRegions >= 0 /\ numPRegions < kMaxNumPRegions_
          /\ \A i \in SlotIds : i < numPRegions => regions[i].id = i
          /\ \A i, j \in SlotIds :
                (i < numPRegions /\ j < numPRegions /\ i # j) =>
                    /\ regions[i].id # regions[j].id
                    /\ regions[i].name # regions[j].name)
    /\ [][numPRegions' # numPRegions =>
             /\ numPRegions' = numPRegions + 1
             /\ regions'[numPRegions].id = numPRegions]_vars
    /\ [][\A t \in Threads :
             (CreatesNewSlot(t) /\ numPRegions + 1 = kMaxNumPRegions_) =>
                 (aborted' /\ numPRegions' = numPRegions)]_vars

\* A creation in a table that holds kMaxNumPRegions_ - 1 slots, one of
\* them deleted earlier and reused, has written the slot after them and
\* ended the process at the assertion of setNumPRegions.
C40_Witness ==
    /\ aborted
    /\ numPRegions = kMaxNumPRegions_ - 1
    /\ \E t \in Threads :
          /\ thr[t].pc = "act" /\ thr[t].op \in {"create", "findOrCreate"}
          /\ ~Found(t)
          /\ regions[numPRegions].name = thr[t].name
    /\ \E i \in SlotIds : i < numPRegions /\ regions[i].is_deleted
====
